---- MODULE Spec2Model ----
(***************************************************************************)
(* NestedAppAuthController (msal-browser): the silent / interactive token  *)
(* acquisition paths, the cache lookup with its freshness policy, the      *)
(* bridge call, cache hydration and the active account.                    *)
(*                                                                         *)
(* Every acquisition call is an async function.  One action of the model   *)
(* is one synchronous run of such a function between two awaits; the       *)
(* JavaScript event loop interleaves those runs of concurrent calls.       *)
(***************************************************************************)
EXTENDS Integers, Sequences, FiniteSets, TLC

\* ------------------------------------------------------------------ bounds
\* The clock (TimeUtils.nowSeconds) ranges over 0..MaxTime.
MaxTime == 2
\* The bridge may grant a token lifetime (expires_in) of 1..MaxExpiresIn.
MaxExpiresIn == 2

\* config.system.tokenRenewalOffsetSeconds, scaled to the model's clock.
tokenRenewalOffsetSeconds == 1

\* ------------------------------------------------------------- value spaces
\* Accounts are identified by their homeAccountId.
Accounts == {"A", "B"}
NoAccount == "none"
\* AccountInfo.environment of an account.
Environment(a) == IF a = "A" THEN "env.A" ELSE "env.B"

\* The acquisition calls that may be in flight together.
Calls == {"c1", "c2"}

NoCid == "none"
NoAuthority == "none"
NoErr == "none"
NoSecret == "none"

OIDC_DEFAULT_SCOPES == {"openid", "profile", "offline_access"}

\* The entry points that run a flow.
SilentApis == {"acquireTokenSilent", "ssoSilent"}
InteractiveApis == {"acquireTokenPopup", "loginPopup"}

\* Errors the host bridge may reject with (BridgeError status codes), the
\* error of a malformed response, and storage errors.
BridgeErrors == {"bridge:USER_CANCEL", "bridge:NO_NETWORK"}
ConversionError == "naa:malformed_response"
StorageError == "storage:quota_exceeded"

\* A request as the caller passes it.
Request(acc, cid, auth, sc) ==
    [account |-> acc, correlationId |-> cid, authority |-> auth, scopes |-> sc]

Requests ==
    { Request(acc, cid, auth, sc) :
        acc \in Accounts \cup {NoAccount},
        cid \in {NoCid, "r1"},
        auth \in {NoAuthority},
        sc \in {{}, {"s1"}} }

\* DEFAULT_REQUEST of BrowserConstants: the OIDC scopes and nothing else.
\* loginPopup called without a request.
NoRequest == [undefined |-> TRUE]

DEFAULT_REQUEST == Request(NoAccount, NoCid, NoAuthority, OIDC_DEFAULT_SCOPES)

\* A cached access token entity; present = FALSE stands for "no entry".
NoAccessToken ==
    [present |-> FALSE, secret |-> NoSecret, cachedAt |-> 0, expiresOn |-> 0,
     scopes |-> {}]

AccessToken(sec, at, exp, sc) ==
    [present |-> TRUE, secret |-> sec, cachedAt |-> at, expiresOn |-> exp,
     scopes |-> sc]

\* An AuthenticationResult; ok = FALSE stands for null.
NoResult ==
    [ok |-> FALSE, account |-> NoAccount, accessToken |-> NoSecret,
     idToken |-> NoSecret, correlationId |-> NoCid, scopes |-> {},
     expiresOn |-> 0, fromCache |-> FALSE, authority |-> NoAuthority]

\* ---------------------------------------------------------------- variables
VARIABLES
    now,            \* the system clock in seconds
    accounts,       \* browserStorage: homeAccountIds of the stored accounts
    accessTokens,   \* browserStorage: the cached access token of each account
    idTokens,       \* browserStorage: the cached id token of each account
    activeAccount,  \* browserStorage: the active account
    bridgeHome,     \* bridgeProxy.getAccountContext().homeAccountId
    callers,        \* the calls the application may start
    pc,             \* where each call stands
    api,            \* the entry point each call came in through
    req,            \* the request each call was given
    validReq,       \* ensureValidRequest(request) of each call
    res,            \* the AuthenticationResult each call holds
    err,            \* the error each rejected call rejected with
    purge,          \* the account whose context each call is removing
    reqTimestamp,   \* the reqTimestamp each call recorded
    trace,          \* what each call did: events, measurements, bridge and storage calls
    storage0,       \* the accounts and tokens the controller was constructed over
    arg,            \* the request argument each entry point was called with
    locals,         \* acquireTokenFromCacheInternal: currentAccount, authRequest
    operatingContext, \* the operating context: its bridge proxy and account
    controller,     \* the controller: constructed or not, and what it holds
    initCalls,      \* where each initialize call of the operating context stands
    lastOp          \* the last other operation of the controller and its outcome
                    \* (for setActiveAccount: the account it was given)

storage == <<accounts, accessTokens, idTokens, activeAccount>>

vars == <<now, accounts, accessTokens, idTokens, activeAccount, bridgeHome,
          callers, pc, api, req, validReq, res, err, purge, reqTimestamp, trace,
          storage0, lastOp, arg, locals, operatingContext, controller,
          initCalls>>

\* ------------------------------------------------------------ pure helpers
\* One entry of a call's trace: an emitted event, a measurement, a bridge call
\* or a storage call, with the correlation id and the error it carries.
Ev(op, cid, e) == [op |-> op, cid |-> cid, err |-> e, ok |-> TRUE]

\* A measurement's end: the success flag, the requestId and the error given.
End(op, cid, success, e) == [op |-> op, cid |-> cid, err |-> e, ok |-> success]

\* JavaScript truthiness of an optional string.
Truthy(s) == s # NoCid /\ s # ""

\* browserCrypto.createNewGuid(): a fresh, non-empty identifier.
createNewGuid(c) == IF c = "c1" THEN "guid-c1" ELSE "guid-c2"

\* The tokens the host issues to a call.
IssuedAccessToken(c) == IF c = "c1" THEN "at-c1" ELSE "at-c2"
IssuedIdToken(c) == IF c = "c1" THEN "id-c1" ELSE "id-c2"

\* ensureValidRequest: the request itself when it has a correlationId,
\* otherwise a copy with a generated one.
ensureValidRequest_Unchanged(request, guid) == request

ensureValidRequest(request, guid) ==
    IF Truthy(request.correlationId)
    THEN request
    ELSE [request EXCEPT !.correlationId = guid]

\* What ensureValidRequest adds to the trace: the guid it generated, if any.
GuidTrace(request, guid) ==
    IF Truthy(request.correlationId) THEN <<>>
    ELSE <<Ev("createNewGuid", guid, NoErr)>>

\* TimeUtils.wasClockTurnedBack(cachedAt)
wasClockTurnedBack(cachedAt, t) == cachedAt > t

\* TimeUtils.isTokenExpired(expiresOn, offset): usable only strictly before
\* expiresOn - offset.
isTokenExpired(expiresOn, offset, t) == t >= expiresOn - offset

\* The freshness test of acquireTokenFromCacheInternal.
IsStale_NoClockCheck(at, t) ==
    isTokenExpired(at.expiresOn, tokenRenewalOffsetSeconds, t)

IsStale(at, t) ==
    \/ wasClockTurnedBack(at.cachedAt, t)
    \/ isTokenExpired(at.expiresOn, tokenRenewalOffsetSeconds, t)

\* AccountManager.getAccountByHomeId over the stored accounts.
getAccountByHomeId(home, accts) == IF home \in accts THEN home ELSE NoAccount

\* const currentAccount = request.account || cachedAccount
CurrentAccount_CachedFirst(request, home, accts) ==
    IF getAccountByHomeId(home, accts) # NoAccount
    THEN getAccountByHomeId(home, accts)
    ELSE request.account

CurrentAccount_FallbackStored(request, home, accts) ==
    IF request.account # NoAccount THEN request.account
    ELSE IF getAccountByHomeId(home, accts) # NoAccount
    THEN getAccountByHomeId(home, accts)
    ELSE IF accts # {} THEN CHOOSE a \in accts : TRUE
    ELSE NoAccount

CurrentAccount(request, home, accts) ==
    IF request.account # NoAccount
    THEN request.account
    ELSE getAccountByHomeId(home, accts)

\* The BaseAuthRequest the lookup builds from the request.
AuthRequest_AccountAuthority(request, acct, guid) ==
    [request EXCEPT
        !.correlationId = IF Truthy(@) THEN @ ELSE guid,
        !.authority = Environment(acct),
        !.scopes = IF @ # {} THEN @ ELSE OIDC_DEFAULT_SCOPES]

AuthRequest_Regenerates(request, acct, guid) ==
    [request EXCEPT
        !.correlationId = guid,
        !.authority = IF @ # NoAuthority THEN @ ELSE Environment(acct),
        !.scopes = IF @ # {} THEN @ ELSE OIDC_DEFAULT_SCOPES]

AuthRequest(request, acct, guid) ==
    [request EXCEPT
        !.correlationId = IF Truthy(@) THEN @ ELSE guid,
        !.authority = IF @ # NoAuthority THEN @ ELSE Environment(acct),
        !.scopes = IF @ # {} THEN @ ELSE OIDC_DEFAULT_SCOPES]

\* browserStorage.getAccessToken: the account's entry when its scopes cover
\* the requested ones.
getAccessToken(acct, authReq, ats) ==
    IF ats[acct].present /\ authReq.scopes \subseteq ats[acct].scopes
    THEN ats[acct]
    ELSE NoAccessToken

\* browserStorage.getIdToken
getIdToken(acct, its) == its[acct]

\* nestedAppAuthAdapter.fromCachedTokens
fromCachedTokens(acct, idTok, at, authReq, cid) ==
    [ok |-> TRUE, account |-> acct, accessToken |-> at.secret,
     idToken |-> idTok, correlationId |-> cid, scopes |-> at.scopes,
     expiresOn |-> at.expiresOn, fromCache |-> TRUE,
     authority |-> authReq.authority]

\* nestedAppAuthAdapter.toNaaTokenRequest
toNaaTokenRequest(request) ==
    [correlationId |-> request.correlationId,
     scopes |-> IF request.scopes = {} THEN OIDC_DEFAULT_SCOPES
                ELSE request.scopes]

\* What the host answers to a call: the account it signed in, the lifetime
\* it grants, and the tokens.
Response(c, acct, expiresIn, naaReq) ==
    [account |-> acct, expiresIn |-> expiresIn,
     accessToken |-> IssuedAccessToken(c), idToken |-> IssuedIdToken(c),
     scopes |-> naaReq.scopes \cup OIDC_DEFAULT_SCOPES]

\* nestedAppAuthAdapter.fromNaaTokenResponse
fromNaaTokenResponse(naaReq, response, reqTs) ==
    [ok |-> TRUE, account |-> response.account,
     accessToken |-> response.accessToken, idToken |-> response.idToken,
     correlationId |-> naaReq.correlationId, scopes |-> response.scopes,
     expiresOn |-> reqTs + response.expiresIn, fromCache |-> FALSE,
     authority |-> Environment(response.account)]

\* nestedAppAuthAdapter.fromBridgeError: a bridge error maps by its status,
\* anything else to the unknown error.
fromBridgeError(e) ==
    CASE e = "bridge:USER_CANCEL" -> "msal:user_cancelled"
      [] e = "bridge:NO_NETWORK" -> "msal:no_network"
      [] OTHER -> "msal:unknown_error"

\* The errors fromBridgeError can produce.
ConvertedErrors == {"msal:user_cancelled", "msal:no_network", "msal:unknown_error"}

\* The outcome of the synchronous part of acquireTokenFromCacheInternal.
\* kind: noAccount | noAccessToken | stale | noIdToken | hit
CacheLookup_NoPurge(request, guid, home, accts, ats, its, t) ==
    LET acct == CurrentAccount(request, home, accts) IN
    IF acct = NoAccount
    THEN [kind |-> "noAccount", account |-> NoAccount, result |-> NoResult]
    ELSE
      LET authReq == AuthRequest(request, acct, guid)
          at == getAccessToken(acct, authReq, ats)
          idTok == getIdToken(acct, its)
      IN  IF ~at.present \/ IsStale(at, t)
          THEN [kind |-> "noAccessToken", account |-> acct, result |-> NoResult]
          ELSE IF idTok = NoSecret
          THEN [kind |-> "noIdToken", account |-> acct, result |-> NoResult]
          ELSE [kind |-> "hit", account |-> acct,
                result |-> fromCachedTokens(acct, idTok, at, authReq,
                                            authReq.correlationId)]

CacheLookup_PurgesWithoutIdToken(request, guid, home, accts, ats, its, t) ==
    LET acct == CurrentAccount(request, home, accts) IN
    IF acct = NoAccount
    THEN [kind |-> "noAccount", account |-> NoAccount, result |-> NoResult]
    ELSE
      LET authReq == AuthRequest(request, acct, guid)
          at == getAccessToken(acct, authReq, ats)
          idTok == getIdToken(acct, its)
      IN  IF ~at.present
          THEN [kind |-> "noAccessToken", account |-> acct, result |-> NoResult]
          ELSE IF IsStale(at, t) \/ idTok = NoSecret
          THEN [kind |-> "stale", account |-> acct, result |-> NoResult]
          ELSE [kind |-> "hit", account |-> acct,
                result |-> fromCachedTokens(acct, idTok, at, authReq,
                                            authReq.correlationId)]

\* The locals of acquireTokenFromCacheInternal: currentAccount and, when an
\* account was found, authRequest.
NoLocals == [currentAccount |-> NoAccount, authRequest |-> NoRequest]

LookupLocals(request, guid, home, accts) ==
    LET acct == CurrentAccount(request, home, accts) IN
    [currentAccount |-> acct,
     authRequest |-> IF acct = NoAccount THEN NoRequest
                     ELSE AuthRequest(request, acct, guid)]

\* What the constructor creates after it has taken the bridge proxy.
Components ==
    {"config", "logger", "performanceClient", "browserCrypto",
     "browserStorage", "eventHandler", "nestedAppAuthAdapter"}

\* An operating context; proxy = "undefined" stands for getBridgeProxy()
\* returning undefined.
OperatingContext(proxy) ==
    [bridgeProxy |-> proxy, activeAccount |-> NoAccount,
     available |-> proxy # "undefined", supportsNestedAppAuth |-> TRUE,
     window |-> TRUE]

\* The initialize calls of the operating context.  One call: where it
\* stands, the bridge proxy BridgeProxy.create() gave it, the host calls it
\* made, and what it resolved with.
InitCalls == {"i1", "i2"}

NoInitCall ==
    [pc |-> "idle", bridgeProxy |-> "undefined", calls |-> <<>>,
     returned |-> "pending"]

NoController == [state |-> "none", bridgeProxy |-> "undefined", created |-> {}]

Constructed(proxy) ==
    [state |-> "constructed", bridgeProxy |-> proxy, created |-> Components]

CacheLookup(request, guid, home, accts, ats, its, t) ==
    LET acct == CurrentAccount(request, home, accts) IN
    IF acct = NoAccount
    THEN [kind |-> "noAccount", account |-> NoAccount, result |-> NoResult]
    ELSE
      LET authReq == AuthRequest(request, acct, guid)
          at == getAccessToken(acct, authReq, ats)
          idTok == getIdToken(acct, its)
      IN  IF ~at.present
          THEN [kind |-> "noAccessToken", account |-> acct, result |-> NoResult]
          ELSE IF IsStale(at, t)
          THEN [kind |-> "stale", account |-> acct, result |-> NoResult]
          ELSE IF idTok = NoSecret
          THEN [kind |-> "noIdToken", account |-> acct, result |-> NoResult]
          ELSE [kind |-> "hit", account |-> acct,
                result |-> fromCachedTokens(acct, idTok, at, authReq,
                                            authReq.correlationId)]

\* The storage reads of the lookup, as trace entries.
LookupTrace(kind, cid) ==
    CASE kind = "noAccount" -> <<>>
      [] kind = "noAccessToken" -> <<Ev("getAccessToken", cid, NoErr)>>
      [] kind = "stale" ->
            <<Ev("getAccessToken", cid, NoErr),
              Ev("removeAccountContext", cid, NoErr)>>
      [] OTHER ->
            <<Ev("getAccessToken", cid, NoErr), Ev("getIdToken", cid, NoErr)>>

\* ------------------------------------------------------------------- Init
\* What the browser storage may hold when the controller is constructed over
\* it (lines 114-126).  For account A: nothing, the account alone, or the
\* account with an access token cached at time 0 and possibly its id token.
\* For account B: nothing, or the account with a token pair.
InitEntriesA ==
    {[stored |-> FALSE, at |-> NoAccessToken, it |-> NoSecret],
     [stored |-> TRUE, at |-> NoAccessToken, it |-> NoSecret]}
    \cup
    {[stored |-> TRUE,
      at |-> AccessToken("at-old", cachedAt, exp,
                         OIDC_DEFAULT_SCOPES \cup {"s1"}),
      it |-> it] :
        cachedAt \in {0}, exp \in 1..MaxExpiresIn + 1,
        it \in {NoSecret, "id-old"}}
    \cup
    {[stored |-> TRUE,
      at |-> AccessToken("at-old", 1, MaxExpiresIn + 1,
                         OIDC_DEFAULT_SCOPES \cup {"s1"}),
      it |-> it] : it \in {NoSecret, "id-old"}}

InitEntriesB ==
    {[stored |-> FALSE, at |-> NoAccessToken, it |-> NoSecret],
     [stored |-> TRUE,
      at |-> AccessToken("at-old", 0, MaxExpiresIn,
                         OIDC_DEFAULT_SCOPES \cup {"s1"}),
      it |-> "id-old"]}

InitStorage ==
    /\ now = 0
    /\ \E ea \in InitEntriesA, eb \in InitEntriesB :
          LET e == [a \in Accounts |-> IF a = "A" THEN ea ELSE eb] IN
          /\ accounts = {a \in Accounts : e[a].stored}
          /\ accessTokens = [a \in Accounts |-> e[a].at]
          /\ idTokens = [a \in Accounts |-> e[a].it]
    /\ activeAccount = NoAccount
    /\ bridgeHome \in {"A", "unknown"}
    /\ pc = [c \in Calls |-> "idle"]
    /\ api = [c \in Calls |-> "none"]
    /\ req = [c \in Calls |-> DEFAULT_REQUEST]
    /\ validReq = [c \in Calls |-> DEFAULT_REQUEST]
    /\ res = [c \in Calls |-> NoResult]
    /\ err = [c \in Calls |-> NoErr]
    /\ purge = [c \in Calls |-> NoAccount]
    /\ reqTimestamp = [c \in Calls |-> 0]
    /\ trace = [c \in Calls |-> <<>>]
    /\ storage0 = <<accounts, accessTokens, idTokens>>
    /\ lastOp = [op |-> "none", outcome |-> "none"]
    /\ arg = [c \in Calls |-> NoRequest]
    /\ locals = [c \in Calls |-> NoLocals]
    /\ initCalls = [i \in InitCalls |-> NoInitCall]

\* The controller constructed over an operating context that holds a bridge
\* proxy; no call has started.
InitCommon ==
    /\ InitStorage
    /\ operatingContext = OperatingContext("bridge")
    /\ controller = Constructed("bridge")

\* The application runs one acquisition call.
InitSeq == InitCommon /\ callers = {"c1"}

\* The application runs acquisition calls concurrently.
InitConc == InitCommon /\ callers = Calls

\* --------------------------------------------------------------- the flows
Append2(c, entries) == [trace EXCEPT ![c] = @ \o entries]

\* The end of the performance measurement of the bridge attempt of a call.
EndBridgeMeasurement(c) ==
    IF api[c] \in SilentApis THEN "end:SsoSilent" ELSE "end:AcquireTokenPopup"

\* The bridge method a call uses.
BridgeMethod(c) ==
    IF api[c] \in SilentApis THEN "getTokenSilent" ELSE "getTokenInteractive"

\* catch (e): const error = fromBridgeError(e); ...; throw error
CatchConvert_Raw(e) == e

CatchConvert(e) == fromBridgeError(e)

\* The catch block of acquireTokenSilentInternal / acquireTokenInteractive.
Catch_EndFirst(c, e) ==
    /\ err' = [err EXCEPT ![c] = CatchConvert(e)]
    /\ res' = [res EXCEPT ![c] = NoResult]
    /\ trace' = Append2(c, <<End(EndBridgeMeasurement(c), NoCid, FALSE, e),
                             Ev("ACQUIRE_TOKEN_FAILURE", NoCid, e)>>)
    /\ pc' = [pc EXCEPT ![c] = "failed"]

Catch(c, e) ==
    /\ err' = [err EXCEPT ![c] = CatchConvert(e)]
    /\ res' = [res EXCEPT ![c] = NoResult]
    /\ trace' = Append2(c, <<Ev("ACQUIRE_TOKEN_FAILURE", NoCid, e),
                             End(EndBridgeMeasurement(c), NoCid, FALSE, e)>>)
    /\ pc' = [pc EXCEPT ![c] = "failed"]

\* acquireTokenSilent / ssoSilent -> acquireTokenSilentInternal, up to the
\* first await: ensureValidRequest, the start event, and inside
\* acquireTokenFromCache the measurement and the synchronous part of
\* acquireTokenFromCacheInternal.
SilentStart(c, a, r) ==
    /\ c \in callers /\ pc[c] = "idle"
    /\ LET guid == createNewGuid(c)
           vr == ensureValidRequest(r, guid)
           out == CacheLookup(vr, guid, bridgeHome, accounts, accessTokens,
                              idTokens, now)
       IN  /\ api' = [api EXCEPT ![c] = a]
           /\ req' = [req EXCEPT ![c] = r]
           /\ validReq' = [validReq EXCEPT ![c] = vr]
           /\ trace' = Append2(c,
                 GuidTrace(r, guid)
                 \o <<Ev("ACQUIRE_TOKEN_START", vr.correlationId, NoErr),
                      Ev("start:AcquireTokenSilent", vr.correlationId, NoErr)>>
                 \o LookupTrace(out.kind, vr.correlationId))
           /\ res' = [res EXCEPT ![c] = out.result]
           /\ purge' = [purge EXCEPT ![c] =
                           IF out.kind = "stale" THEN out.account ELSE NoAccount]
           /\ locals' = [locals EXCEPT ![c] =
                            LookupLocals(vr, guid, bridgeHome, accounts)]
           /\ pc' = [pc EXCEPT ![c] =
                        IF out.kind = "stale" THEN "evicting" ELSE "cacheInternal"]
    /\ UNCHANGED <<now, accounts, accessTokens, idTokens, activeAccount,
                   bridgeHome, callers, err, reqTimestamp, storage0, lastOp,
                   operatingContext, controller, initCalls>>

\* browserStorage.removeAccountContext(entity): the tokens of the account go.
removeAccountContext(acct, tokens, none) == [tokens EXCEPT ![acct] = none]

\* await removeAccountContext(...) resolves; the lookup returns null.
EvictComplete_AllAccounts(c) ==
    /\ pc[c] = "evicting"
    /\ accessTokens' = [a \in Accounts |-> NoAccessToken]
    /\ idTokens' = [a \in Accounts |-> NoSecret]
    /\ trace' = Append2(c, <<Ev("removed", validReq[c].correlationId, NoErr)>>)
    /\ pc' = [pc EXCEPT ![c] = "cacheInternal"]
    /\ UNCHANGED <<now, accounts, activeAccount, bridgeHome, callers, api, req,
                   validReq, res, err, purge, reqTimestamp, storage0, lastOp,
                   arg, locals, operatingContext, controller, initCalls>>

EvictComplete_ClearsActive(c) ==
    /\ pc[c] = "evicting"
    /\ accessTokens' = removeAccountContext(purge[c], accessTokens, NoAccessToken)
    /\ idTokens' = removeAccountContext(purge[c], idTokens, NoSecret)
    /\ activeAccount' = IF activeAccount = purge[c] THEN NoAccount
                        ELSE activeAccount
    /\ trace' = Append2(c, <<Ev("removed", validReq[c].correlationId, NoErr)>>)
    /\ pc' = [pc EXCEPT ![c] = "cacheInternal"]
    /\ UNCHANGED <<now, accounts, bridgeHome, callers, api, req, validReq, res,
                   err, purge, reqTimestamp, storage0, lastOp, arg, locals,
                   operatingContext, controller, initCalls>>

EvictComplete(c) ==
    /\ pc[c] = "evicting"
    /\ accessTokens' = removeAccountContext(purge[c], accessTokens, NoAccessToken)
    /\ idTokens' = removeAccountContext(purge[c], idTokens, NoSecret)
    /\ trace' = Append2(c, <<Ev("removed", validReq[c].correlationId, NoErr)>>)
    /\ pc' = [pc EXCEPT ![c] = "cacheInternal"]
    /\ UNCHANGED <<now, accounts, activeAccount, bridgeHome, callers, api, req,
                   validReq, res, err, purge, reqTimestamp, storage0, lastOp,
                   arg, locals, operatingContext, controller, initCalls>>

\* await removeAccountContext(...) rejects: no try block encloses it, the
\* storage error leaves acquireTokenSilentInternal as it is.  The id token
\* may already be gone.
EvictFail(c, partial) ==
    /\ pc[c] = "evicting"
    /\ idTokens' = IF partial
                   THEN removeAccountContext(purge[c], idTokens, NoSecret)
                   ELSE idTokens
    /\ err' = [err EXCEPT ![c] = StorageError]
    /\ pc' = [pc EXCEPT ![c] = "failed"]
    /\ UNCHANGED <<now, accounts, accessTokens, activeAccount, bridgeHome,
                   callers, api, req, validReq, res, purge, reqTimestamp,
                   trace, storage0, lastOp, arg, locals, operatingContext,
                   controller, initCalls>>

\* acquireTokenFromCache after await acquireTokenFromCacheInternal(request).
CacheResume_RefreshesToken(c) ==
    /\ pc[c] = "cacheInternal"
    /\ trace' = Append2(c,
          IF res[c].ok
          THEN <<Ev("ACQUIRE_TOKEN_SUCCESS", res[c].correlationId, NoErr),
                 End("end:AcquireTokenSilent", NoCid, TRUE, NoErr)>>
          ELSE <<Ev("ACQUIRE_TOKEN_FAILURE", NoCid, NoErr),
                 End("end:AcquireTokenSilent", NoCid, FALSE, NoErr)>>)
    /\ accessTokens' =
          IF res[c].ok
          THEN [accessTokens EXCEPT ![res[c].account].cachedAt = now]
          ELSE accessTokens
    /\ pc' = [pc EXCEPT ![c] = "cacheDone"]
    /\ UNCHANGED <<now, accounts, idTokens, activeAccount, bridgeHome, callers,
                   api, req, validReq, res, err, purge, reqTimestamp, storage0,
                   lastOp, arg, locals, operatingContext, controller,
                   initCalls>>

CacheResume(c) ==
    /\ pc[c] = "cacheInternal"
    /\ trace' = Append2(c,
          IF res[c].ok
          THEN <<Ev("ACQUIRE_TOKEN_SUCCESS", res[c].correlationId, NoErr),
                 End("end:AcquireTokenSilent", NoCid, TRUE, NoErr)>>
          ELSE <<Ev("ACQUIRE_TOKEN_FAILURE", NoCid, NoErr),
                 End("end:AcquireTokenSilent", NoCid, FALSE, NoErr)>>)
    /\ pc' = [pc EXCEPT ![c] = "cacheDone"]
    /\ UNCHANGED <<now, accounts, accessTokens, idTokens, activeAccount,
                   bridgeHome, callers, api, req, validReq, res, err, purge,
                   reqTimestamp, storage0, lastOp, arg, locals,
                   operatingContext, controller, initCalls>>

\* acquireTokenSilentInternal after await acquireTokenFromCache(validRequest):
\* a hit returns; a miss starts the measurement and calls the bridge.
SilentResume_NoEarlyReturn(c) ==
    /\ pc[c] = "cacheDone"
    /\ trace' = Append2(c,
          <<Ev("start:SsoSilent", validReq[c].correlationId, NoErr),
            Ev("getTokenSilent",
               toNaaTokenRequest(validReq[c]).correlationId, NoErr)>>)
    /\ reqTimestamp' = [reqTimestamp EXCEPT ![c] = now]
    /\ pc' = [pc EXCEPT ![c] = "bridge"]
    /\ UNCHANGED <<now, accounts, accessTokens, idTokens, activeAccount,
                   bridgeHome, callers, api, req, validReq, res, err, purge,
                   storage0, lastOp, arg, locals, operatingContext, controller,
                   initCalls>>

SilentResume(c) ==
    /\ pc[c] = "cacheDone"
    /\ IF res[c].ok
       THEN /\ trace' = Append2(c,
                 <<Ev("ACQUIRE_TOKEN_SUCCESS", res[c].correlationId, NoErr)>>)
            /\ pc' = [pc EXCEPT ![c] = "done"]
            /\ UNCHANGED reqTimestamp
       ELSE /\ trace' = Append2(c,
                 <<Ev("start:SsoSilent", validReq[c].correlationId, NoErr),
                   Ev("getTokenSilent",
                      toNaaTokenRequest(validReq[c]).correlationId, NoErr)>>)
            /\ reqTimestamp' = [reqTimestamp EXCEPT ![c] = now]
            /\ pc' = [pc EXCEPT ![c] = "bridge"]
    /\ UNCHANGED <<now, accounts, accessTokens, idTokens, activeAccount,
                   bridgeHome, callers, api, req, validReq, res, err, purge,
                   storage0, lastOp, arg, locals, operatingContext, controller,
                   initCalls>>

\* acquireTokenPopup / loginPopup -> acquireTokenInteractive, up to
\* await bridgeProxy.getTokenInteractive(naaRequest).
InteractiveStart_ChecksCache(c, a, r) ==
    /\ c \in callers /\ pc[c] = "idle"
    /\ LET guid == createNewGuid(c)
           vr == ensureValidRequest(r, guid)
           out == CacheLookup(vr, guid, bridgeHome, accounts, accessTokens,
                              idTokens, now)
       IN  /\ api' = [api EXCEPT ![c] = a]
           /\ req' = [req EXCEPT ![c] = r]
           /\ validReq' = [validReq EXCEPT ![c] = vr]
           /\ trace' = Append2(c,
                 GuidTrace(r, guid)
                 \o <<Ev("ACQUIRE_TOKEN_START", vr.correlationId, NoErr),
                      Ev("start:AcquireTokenPopup", vr.correlationId, NoErr)>>
                 \o LookupTrace(out.kind, vr.correlationId)
                 \o <<Ev("getTokenInteractive",
                         toNaaTokenRequest(vr).correlationId, NoErr)>>)
    /\ reqTimestamp' = [reqTimestamp EXCEPT ![c] = now]
    /\ pc' = [pc EXCEPT ![c] = "bridge"]
    /\ UNCHANGED <<now, accounts, accessTokens, idTokens, activeAccount,
                   bridgeHome, callers, res, err, purge, storage0, lastOp,
                   locals, operatingContext, controller, initCalls>>

InteractiveStart(c, a, r) ==
    /\ c \in callers /\ pc[c] = "idle"
    /\ LET guid == createNewGuid(c)
           vr == ensureValidRequest(r, guid)
       IN  /\ api' = [api EXCEPT ![c] = a]
           /\ req' = [req EXCEPT ![c] = r]
           /\ validReq' = [validReq EXCEPT ![c] = vr]
           /\ trace' = Append2(c,
                 GuidTrace(r, guid)
                 \o <<Ev("ACQUIRE_TOKEN_START", vr.correlationId, NoErr),
                      Ev("start:AcquireTokenPopup", vr.correlationId, NoErr),
                      Ev("getTokenInteractive",
                         toNaaTokenRequest(vr).correlationId, NoErr)>>)
    /\ reqTimestamp' = [reqTimestamp EXCEPT ![c] = now]
    /\ pc' = [pc EXCEPT ![c] = "bridge"]
    /\ UNCHANGED <<now, accounts, accessTokens, idTokens, activeAccount,
                   bridgeHome, callers, res, err, purge, storage0, lastOp,
                   locals, operatingContext, controller, initCalls>>

\* The bridge call resolves: the response is converted, hydrateCache stores
\* the account (setAccount) and calls browserStorage.hydrateCache.
BridgeResolve_ActiveFirst(c, acct, expiresIn) ==
    /\ pc[c] = "bridge"
    /\ LET naaReq == toNaaTokenRequest(validReq[c])
           result == fromNaaTokenResponse(
                        naaReq, Response(c, acct, expiresIn, naaReq),
                        reqTimestamp[c])
       IN  /\ res' = [res EXCEPT ![c] = result]
           /\ accounts' = accounts \cup {result.account}
           /\ activeAccount' = result.account
           /\ trace' = Append2(c,
                 <<Ev("setActiveAccount", result.correlationId, NoErr),
                   Ev("setAccount", result.correlationId, NoErr),
                   Ev("hydrateCache", result.correlationId, NoErr)>>)
    /\ pc' = [pc EXCEPT ![c] = "hydrate"]
    /\ UNCHANGED <<now, accessTokens, idTokens, bridgeHome, callers, api, req,
                   validReq, err, purge, reqTimestamp, storage0, lastOp, arg,
                   locals, operatingContext, controller, initCalls>>

BridgeResolve(c, acct, expiresIn) ==
    /\ pc[c] = "bridge"
    /\ LET naaReq == toNaaTokenRequest(validReq[c])
           result == fromNaaTokenResponse(
                        naaReq, Response(c, acct, expiresIn, naaReq),
                        reqTimestamp[c])
       IN  /\ res' = [res EXCEPT ![c] = result]
           /\ accounts' = accounts \cup {result.account}
           /\ trace' = Append2(c,
                 <<Ev("setAccount", result.correlationId, NoErr),
                   Ev("hydrateCache", result.correlationId, NoErr)>>)
    /\ pc' = [pc EXCEPT ![c] = "hydrate"]
    /\ UNCHANGED <<now, accessTokens, idTokens, activeAccount, bridgeHome,
                   callers, api, req, validReq, err, purge, reqTimestamp,
                   storage0, lastOp, arg, locals, operatingContext, controller,
                   initCalls>>

\* The bridge call rejects with a bridge error.
BridgeReject_EvictsRequestAccount(c, e) ==
    /\ pc[c] = "bridge"
    /\ Catch(c, e)
    /\ accessTokens' =
          IF validReq[c].account # NoAccount
          THEN removeAccountContext(validReq[c].account, accessTokens,
                                    NoAccessToken)
          ELSE accessTokens
    /\ UNCHANGED <<now, accounts, idTokens, activeAccount, bridgeHome, callers,
                   api, req, validReq, purge, reqTimestamp, storage0, lastOp,
                   arg, locals, operatingContext, controller, initCalls>>

BridgeReject_Retries(c, e) ==
    /\ pc[c] = "bridge"
    /\ trace' = Append2(c,
          <<Ev(BridgeMethod(c), toNaaTokenRequest(validReq[c]).correlationId,
               NoErr)>>)
    /\ UNCHANGED <<now, accounts, accessTokens, idTokens, activeAccount,
                   bridgeHome, callers, pc, api, req, validReq, res, err,
                   purge, reqTimestamp, storage0, lastOp, arg, locals,
                   operatingContext, controller, initCalls>>

BridgeReject(c, e) ==
    /\ pc[c] = "bridge"
    /\ Catch(c, e)
    /\ UNCHANGED <<now, accounts, accessTokens, idTokens, activeAccount,
                   bridgeHome, callers, api, req, validReq, purge,
                   reqTimestamp, storage0, lastOp, arg, locals,
                   operatingContext, controller, initCalls>>

\* The bridge call resolves with a response fromNaaTokenResponse cannot
\* convert: the conversion throws inside the try block.
BridgeMalformed(c) ==
    /\ pc[c] = "bridge"
    /\ Catch(c, ConversionError)
    /\ UNCHANGED <<now, accounts, accessTokens, idTokens, activeAccount,
                   bridgeHome, callers, api, req, validReq, purge,
                   reqTimestamp, storage0, lastOp, arg, locals,
                   operatingContext, controller, initCalls>>

\* browserStorage.hydrateCache(result, request): the access token and the id
\* token of the result are stored under the result's account.
hydrateAccessToken(result, ats, t) ==
    [ats EXCEPT ![result.account] =
        AccessToken(result.accessToken, t, result.expiresOn, result.scopes)]

hydrateIdToken(result, its) == [its EXCEPT ![result.account] = result.idToken]

\* browserStorage.hydrateCache resolves.
HydrateComplete_NoIdToken(c) ==
    /\ pc[c] = "hydrate"
    /\ accessTokens' = hydrateAccessToken(res[c], accessTokens, now)
    /\ trace' = Append2(c, <<Ev("hydrated", res[c].correlationId, NoErr)>>)
    /\ pc' = [pc EXCEPT ![c] = "hydrated"]
    /\ UNCHANGED <<now, accounts, idTokens, activeAccount, bridgeHome, callers,
                   api, req, validReq, res, err, purge, reqTimestamp, storage0,
                   lastOp, arg, locals, operatingContext, controller,
                   initCalls>>

HydrateComplete(c) ==
    /\ pc[c] = "hydrate"
    /\ accessTokens' = hydrateAccessToken(res[c], accessTokens, now)
    /\ idTokens' = hydrateIdToken(res[c], idTokens)
    /\ trace' = Append2(c, <<Ev("hydrated", res[c].correlationId, NoErr)>>)
    /\ pc' = [pc EXCEPT ![c] = "hydrated"]
    /\ UNCHANGED <<now, accounts, activeAccount, bridgeHome, callers, api, req,
                   validReq, res, err, purge, reqTimestamp, storage0, lastOp,
                   arg, locals, operatingContext, controller, initCalls>>

\* browserStorage.hydrateCache rejects, possibly after the id token was
\* written; the catch block runs.
HydrateFail(c, partial) ==
    /\ pc[c] = "hydrate" /\ api[c] \in SilentApis \cup InteractiveApis
    /\ idTokens' = IF partial THEN hydrateIdToken(res[c], idTokens) ELSE idTokens
    /\ Catch(c, StorageError)
    /\ UNCHANGED <<now, accounts, accessTokens, activeAccount, bridgeHome,
                   callers, api, req, validReq, purge, reqTimestamp, storage0,
                   lastOp, arg, locals, operatingContext, controller,
                   initCalls>>

\* After await hydrateCache(result, request): the active account is set, the
\* success event emitted, the measurement ended, the result returned.
Finish_NoActiveAccount(c) ==
    /\ pc[c] = "hydrated" /\ api[c] \in SilentApis \cup InteractiveApis
    /\ trace' = Append2(c,
          <<Ev("ACQUIRE_TOKEN_SUCCESS", res[c].correlationId, NoErr),
            End(EndBridgeMeasurement(c), res[c].correlationId, TRUE, NoErr)>>)
    /\ pc' = [pc EXCEPT ![c] = "done"]
    /\ UNCHANGED <<now, accounts, accessTokens, idTokens, activeAccount,
                   bridgeHome, callers, api, req, validReq, res, err, purge,
                   reqTimestamp, storage0, lastOp, arg, locals,
                   operatingContext, controller, initCalls>>

Finish(c) ==
    /\ pc[c] = "hydrated" /\ api[c] \in SilentApis \cup InteractiveApis
    /\ activeAccount' = res[c].account
    /\ trace' = Append2(c,
          <<Ev("setActiveAccount", res[c].correlationId, NoErr),
            Ev("ACQUIRE_TOKEN_SUCCESS", res[c].correlationId, NoErr),
            End(EndBridgeMeasurement(c), res[c].correlationId, TRUE, NoErr)>>)
    /\ pc' = [pc EXCEPT ![c] = "done"]
    /\ UNCHANGED <<now, accounts, accessTokens, idTokens, bridgeHome, callers,
                   api, req, validReq, res, err, purge, reqTimestamp, storage0,
                   lastOp, arg, locals, operatingContext, controller,
                   initCalls>>

\* ------------------------------------------- hydrateCache called directly
\* The results the application hands to hydrateCache(result, request).
HydrateResults ==
    {[ok |-> TRUE, account |-> a, accessToken |-> "at-new",
      idToken |-> "id-new", correlationId |-> "r1",
      scopes |-> OIDC_DEFAULT_SCOPES \cup {"s1"}, expiresOn |-> e,
      fromCache |-> FALSE, authority |-> Environment(a)] :
        a \in Accounts, e \in {MaxExpiresIn, MaxExpiresIn + 1}}

\* hydrateCache(result, request), lines 808-826: the account entity of the
\* result is stored, then browserStorage.hydrateCache is invoked and its
\* promise returned.  The application makes its calls one after the other.
HydrateCache_SkipsKnownAccount(c, result, r) ==
    /\ c \in callers /\ pc[c] = "idle"
    /\ \A d \in Calls \ {c} : pc[d] \in {"idle", "done", "failed"}
    /\ api' = [api EXCEPT ![c] = "hydrateCache"]
    /\ req' = [req EXCEPT ![c] = r]
    /\ res' = [res EXCEPT ![c] = result]
    /\ accounts' = accounts \cup {result.account}
    /\ trace' = Append2(c,
          IF result.account \in accounts THEN <<>>
          ELSE <<Ev("setAccount", result.correlationId, NoErr),
                 Ev("hydrateCache", result.correlationId, NoErr)>>)
    /\ pc' = [pc EXCEPT ![c] =
                 IF result.account \in accounts THEN "hydrated" ELSE "hydrate"]
    /\ UNCHANGED <<now, accessTokens, idTokens, activeAccount, bridgeHome,
                   callers, validReq, err, purge, reqTimestamp, storage0,
                   lastOp, arg, locals, operatingContext, controller,
                   initCalls>>

HydrateCache(c, result, r) ==
    /\ c \in callers /\ pc[c] = "idle"
    /\ \A d \in Calls \ {c} : pc[d] \in {"idle", "done", "failed"}
    /\ api' = [api EXCEPT ![c] = "hydrateCache"]
    /\ req' = [req EXCEPT ![c] = r]
    /\ res' = [res EXCEPT ![c] = result]
    /\ accounts' = accounts \cup {result.account}
    /\ trace' = Append2(c,
          <<Ev("setAccount", result.correlationId, NoErr),
            Ev("hydrateCache", result.correlationId, NoErr)>>)
    /\ pc' = [pc EXCEPT ![c] = "hydrate"]
    /\ UNCHANGED <<now, accessTokens, idTokens, activeAccount, bridgeHome,
                   callers, validReq, err, purge, reqTimestamp, storage0,
                   lastOp, arg, locals, operatingContext, controller,
                   initCalls>>

\* The promise hydrateCache returned rejects with the storage's error, as
\* no handler of hydrateCache encloses it; the id token may be written.
HydrateCacheReject(c, partial) ==
    /\ pc[c] = "hydrate" /\ api[c] = "hydrateCache"
    /\ idTokens' = IF partial THEN hydrateIdToken(res[c], idTokens) ELSE idTokens
    /\ err' = [err EXCEPT ![c] = StorageError]
    /\ pc' = [pc EXCEPT ![c] = "failed"]
    /\ UNCHANGED <<now, accounts, accessTokens, activeAccount, bridgeHome,
                   callers, api, req, validReq, res, purge, reqTimestamp,
                   trace, storage0, lastOp, arg, locals, operatingContext,
                   controller, initCalls>>

\* The promise hydrateCache returned resolves.
HydrateCacheReturn(c) ==
    /\ pc[c] = "hydrated" /\ api[c] = "hydrateCache"
    /\ pc' = [pc EXCEPT ![c] = "done"]
    /\ UNCHANGED <<now, accounts, accessTokens, idTokens, activeAccount,
                   bridgeHome, callers, api, req, validReq, res, err, purge,
                   reqTimestamp, trace, storage0, lastOp, arg, locals,
                   operatingContext, controller, initCalls>>

\* ------------------------------------------------------- other operations
\* setActiveAccount(account) -> AccountManager.setActiveAccount
SetActiveAccount_KeepsExisting(a) ==
    /\ activeAccount' = IF activeAccount = NoAccount THEN a ELSE activeAccount
    /\ lastOp' = [op |-> "setActiveAccount", outcome |-> a]
    /\ UNCHANGED <<now, accounts, accessTokens, idTokens, bridgeHome, callers,
                   pc, api, req, validReq, res, err, purge, reqTimestamp,
                   trace, storage0, arg, locals, operatingContext, controller,
                   initCalls>>

SetActiveAccount(a) ==
    /\ activeAccount' = a
    /\ lastOp' = [op |-> "setActiveAccount", outcome |-> a]
    /\ UNCHANGED <<now, accounts, accessTokens, idTokens, bridgeHome, callers,
                   pc, api, req, validReq, res, err, purge, reqTimestamp,
                   trace, storage0, arg, locals, operatingContext, controller,
                   initCalls>>

\* The operations that throw NestedAppAuthError.createUnsupportedError().
UnsupportedOps ==
    {"acquireTokenRedirect", "loginRedirect", "logout", "logoutRedirect",
     "logoutPopup", "acquireTokenByCode", "acquireTokenByRefreshToken",
     "acquireTokenNative", "addPerformanceCallback",
     "removePerformanceCallback", "clearCache"}

UnsupportedError == "unsupported_method"

Unsupported_ClearsCache(op) ==
    /\ lastOp' = [op |-> op, outcome |-> UnsupportedError]
    /\ accounts' = IF op = "clearCache" THEN {} ELSE accounts
    /\ activeAccount' = IF op = "clearCache" THEN NoAccount ELSE activeAccount
    /\ UNCHANGED <<now, accessTokens, idTokens, bridgeHome, callers, pc, api,
                   req, validReq, res, err, purge, reqTimestamp, trace,
                   storage0, arg, locals, operatingContext, controller,
                   initCalls>>

Unsupported(op) ==
    /\ lastOp' = [op |-> op, outcome |-> UnsupportedError]
    /\ UNCHANGED <<now, accounts, accessTokens, idTokens, activeAccount,
                   bridgeHome, callers, pc, api, req, validReq, res, err,
                   purge, reqTimestamp, trace, storage0, arg, locals,
                   operatingContext, controller, initCalls>>

\* initialize, handleRedirectPromise, initializeWrapperLibrary and
\* setNavigationClient: nothing is done; the outcome is what the caller gets.
NoOps ==
    {"initialize", "handleRedirectPromise", "initializeWrapperLibrary",
     "setNavigationClient"}

NoOpOutcome(op) ==
    CASE op = "initialize" -> "resolved"
      [] op = "handleRedirectPromise" -> "null"
      [] OTHER -> "returned"

NoOp_ClearsActive(op) ==
    /\ lastOp' = [op |-> op, outcome |-> NoOpOutcome(op)]
    /\ activeAccount' =
          IF op = "handleRedirectPromise" THEN NoAccount ELSE activeAccount
    /\ UNCHANGED <<now, accounts, accessTokens, idTokens, bridgeHome, callers,
                   pc, api, req, validReq, res, err, purge, reqTimestamp,
                   trace, storage0, arg, locals, operatingContext, controller,
                   initCalls>>

NoOp(op) ==
    /\ lastOp' = [op |-> op, outcome |-> NoOpOutcome(op)]
    /\ UNCHANGED <<now, accounts, accessTokens, idTokens, activeAccount,
                   bridgeHome, callers, pc, api, req, validReq, res, err,
                   purge, reqTimestamp, trace, storage0, arg, locals,
                   operatingContext, controller, initCalls>>

\* -------------------------------------- TeamsAppOperatingContext.initialize
\* The bridge proxy BridgeProxy.create() resolves with for a call.
ProxyOf(i) == IF i = "i1" THEN "bridge-i1" ELSE "bridge-i2"

\* What bridgeProxy.getHostCapabilities() may do: report queryAccount,
\* report capabilities without it, return null, or throw.
HostCapabilities == {"queryAccount", "noQueryAccount", "null", "throws"}

Bool(b) == IF b THEN "true" ELSE "false"

\* Lines 77-78 and 86-87: the proxy is stored, the context is available and
\* the call resolves with this.available.
StoreProxy(ctx, proxy) ==
    [ctx EXCEPT !.bridgeProxy = proxy, !.available = proxy # "undefined"]

Initialize_NoConfigCheck(i) ==
    /\ initCalls[i].pc = "idle"
    /\ initCalls' =
          IF operatingContext.window
          THEN [initCalls EXCEPT ![i].pc = "creating",
                                 ![i].calls = <<<<"create", "pending">>>>]
          ELSE [initCalls EXCEPT ![i].pc = "done",
                                 ![i].returned =
                                     Bool(operatingContext.available)]
    /\ UNCHANGED <<now, accounts, accessTokens, idTokens, activeAccount,
                   bridgeHome, callers, pc, api, req, validReq, res, err,
                   purge, reqTimestamp, trace, storage0, lastOp, arg, locals,
                   operatingContext, controller>>

\* initialize() up to await BridgeProxy.create(), or to its return when
\* nested app auth is not supported or there is no window.
Initialize(i) ==
    /\ initCalls[i].pc = "idle"
    /\ initCalls' =
          IF ~operatingContext.supportsNestedAppAuth
          THEN [initCalls EXCEPT ![i].pc = "done", ![i].returned = "false"]
          ELSE IF operatingContext.window
          THEN [initCalls EXCEPT ![i].pc = "creating",
                                 ![i].calls = <<<<"create", "pending">>>>]
          ELSE [initCalls EXCEPT ![i].pc = "done",
                                 ![i].returned =
                                     Bool(operatingContext.available)]
    /\ UNCHANGED <<now, accounts, accessTokens, idTokens, activeAccount,
                   bridgeHome, callers, pc, api, req, validReq, res, err,
                   purge, reqTimestamp, trace, storage0, lastOp, arg, locals,
                   operatingContext, controller>>

\* BridgeProxy.create() resolved; getHostCapabilities() answers caps.  With
\* queryAccount the call awaits getActiveAccount(); otherwise, and when the
\* capability query throws, it stores the proxy and returns.
CreateResolve(i, caps) ==
    /\ initCalls[i].pc = "creating"
    /\ LET proxy == ProxyOf(i)
           asked == <<<<"create", "resolved">>,
                      <<"getHostCapabilities", caps>>>>
       IN  IF caps = "queryAccount"
           THEN /\ initCalls' =
                      [initCalls EXCEPT
                          ![i].pc = "querying",
                          ![i].bridgeProxy = proxy,
                          ![i].calls =
                              asked \o <<<<"getActiveAccount", "pending">>>>]
                /\ UNCHANGED operatingContext
           ELSE /\ operatingContext' = StoreProxy(operatingContext, proxy)
                /\ initCalls' =
                      [initCalls EXCEPT
                          ![i].pc = "done",
                          ![i].bridgeProxy = proxy,
                          ![i].calls = asked,
                          ![i].returned = Bool(proxy # "undefined")]
    /\ UNCHANGED <<now, accounts, accessTokens, idTokens, activeAccount,
                   bridgeHome, callers, pc, api, req, validReq, res, err,
                   purge, reqTimestamp, trace, storage0, lastOp, arg, locals,
                   controller>>

\* BridgeProxy.create() rejected: the catch of line 80 logs, and the call
\* resolves with this.available.
CreateReject(i) ==
    /\ initCalls[i].pc = "creating"
    /\ initCalls' =
          [initCalls EXCEPT
              ![i].pc = "done",
              ![i].calls = <<<<"create", "rejected">>>>,
              ![i].returned = Bool(operatingContext.available)]
    /\ UNCHANGED <<now, accounts, accessTokens, idTokens, activeAccount,
                   bridgeHome, callers, pc, api, req, validReq, res, err,
                   purge, reqTimestamp, trace, storage0, lastOp, arg, locals,
                   operatingContext, controller>>

\* await bridgeProxy.getActiveAccount() resolved with acct (NoAccount: with
\* undefined).
GetActiveAccountResolve(i, acct) ==
    /\ initCalls[i].pc = "querying"
    /\ operatingContext' =
          StoreProxy([operatingContext EXCEPT !.activeAccount = acct],
                     initCalls[i].bridgeProxy)
    /\ initCalls' =
          [initCalls EXCEPT
              ![i].pc = "done",
              ![i].calls = [@ EXCEPT ![3] = <<"getActiveAccount", "resolved">>],
              ![i].returned = Bool(initCalls[i].bridgeProxy # "undefined")]
    /\ UNCHANGED <<now, accounts, accessTokens, idTokens, activeAccount,
                   bridgeHome, callers, pc, api, req, validReq, res, err,
                   purge, reqTimestamp, trace, storage0, lastOp, arg, locals,
                   controller>>

GetActiveAccountReject_Propagates(i) ==
    /\ initCalls[i].pc = "querying"
    /\ initCalls' =
          [initCalls EXCEPT
              ![i].pc = "done",
              ![i].calls = [@ EXCEPT ![3] = <<"getActiveAccount", "rejected">>],
              ![i].returned = Bool(operatingContext.available)]
    /\ UNCHANGED <<now, accounts, accessTokens, idTokens, activeAccount,
                   bridgeHome, callers, pc, api, req, validReq, res, err,
                   purge, reqTimestamp, trace, storage0, lastOp, arg, locals,
                   operatingContext, controller>>

\* await bridgeProxy.getActiveAccount() rejected: the inner catch ignores
\* the error; activeAccount is not assigned.
GetActiveAccountReject(i) ==
    /\ initCalls[i].pc = "querying"
    /\ operatingContext' =
          StoreProxy(operatingContext, initCalls[i].bridgeProxy)
    /\ initCalls' =
          [initCalls EXCEPT
              ![i].pc = "done",
              ![i].calls = [@ EXCEPT ![3] = <<"getActiveAccount", "rejected">>],
              ![i].returned = Bool(initCalls[i].bridgeProxy # "undefined")]
    /\ UNCHANGED <<now, accounts, accessTokens, idTokens, activeAccount,
                   bridgeHome, callers, pc, api, req, validReq, res, err,
                   purge, reqTimestamp, trace, storage0, lastOp, arg, locals,
                   controller>>

\* TeamsAppOperatingContext.setActiveAccount(account).
ContextSetActiveAccount(a) ==
    /\ operatingContext' = [operatingContext EXCEPT !.activeAccount = a]
    /\ UNCHANGED <<now, accounts, accessTokens, idTokens, activeAccount,
                   bridgeHome, callers, pc, api, req, validReq, res, err,
                   purge, reqTimestamp, trace, storage0, lastOp, arg, locals,
                   controller, initCalls>>

\* ---------------------------------------------------------------- the clock
Tick ==
    /\ now < MaxTime
    /\ now' = now + 1
    /\ UNCHANGED <<accounts, accessTokens, idTokens, activeAccount, bridgeHome,
                   callers, pc, api, req, validReq, res, err, purge,
                   reqTimestamp, trace, storage0, lastOp, arg, locals,
                   operatingContext, controller, initCalls>>

\* The system clock is set back.
ClockBack ==
    /\ now > 0
    /\ now' = now - 1
    /\ UNCHANGED <<accounts, accessTokens, idTokens, activeAccount, bridgeHome,
                   callers, pc, api, req, validReq, res, err, purge,
                   reqTimestamp, trace, storage0, lastOp, arg, locals,
                   operatingContext, controller, initCalls>>

\* --------------------------------------------------------- specification
\* The requests that differ in their account only.
ConcRequests == {r \in Requests : r.correlationId = NoCid /\ r.scopes = {}}

\* The steps of the calls in flight.
Continue ==
    \/ \E c \in Calls : EvictComplete(c)
    \/ \E c \in Calls, partial \in BOOLEAN : EvictFail(c, partial)
    \/ \E c \in Calls : CacheResume(c)
    \/ \E c \in Calls : SilentResume(c)
    \/ \E c \in Calls, acct \in Accounts, expiresIn \in 1..MaxExpiresIn :
          BridgeResolve(c, acct, expiresIn)
    \/ \E c \in Calls, e \in BridgeErrors : BridgeReject(c, e)
    \/ \E c \in Calls : BridgeMalformed(c)
    \/ \E c \in Calls : HydrateComplete(c)
    \/ \E c \in Calls, partial \in BOOLEAN : HydrateFail(c, partial)
    \/ \E c \in Calls : Finish(c)

\* The four entry points, each with the request it was called with.
acquireTokenSilent(c, silentRequest) ==
    /\ SilentStart(c, "acquireTokenSilent", silentRequest)
    /\ arg' = [arg EXCEPT ![c] = silentRequest]

ssoSilent(c, given) ==
    /\ SilentStart(c, "ssoSilent", given)
    /\ arg' = [arg EXCEPT ![c] = given]

acquireTokenPopup(c, given) ==
    /\ InteractiveStart(c, "acquireTokenPopup", given)
    /\ arg' = [arg EXCEPT ![c] = given]

loginPopup_IgnoresRequest(c, given) ==
    /\ InteractiveStart(c, "loginPopup", DEFAULT_REQUEST)
    /\ arg' = [arg EXCEPT ![c] = given]

\* loginPopup(request?): acquireTokenInteractive(request || DEFAULT_REQUEST).
loginPopup(c, given) ==
    /\ InteractiveStart(c, "loginPopup",
                        IF given = NoRequest THEN DEFAULT_REQUEST ELSE given)
    /\ arg' = [arg EXCEPT ![c] = given]

\* One call, with every entry point, among the moves of the clock.
Next ==
    \/ \E c \in Calls, r \in Requests : acquireTokenSilent(c, r)
    \/ \E c \in Calls, r \in ConcRequests : ssoSilent(c, r)
    \/ \E c \in Calls, r \in Requests : acquireTokenPopup(c, r)
    \/ \E c \in Calls, r \in ConcRequests \cup {DEFAULT_REQUEST, NoRequest} :
          loginPopup(c, r)
    \/ Continue
    \/ Tick

Spec == InitSeq /\ [][Next]_vars

\* One call whose awaited bridge call and storage operations settle: a step
\* that continues a call after an await is not put off forever.
SpecLive == InitSeq /\ [][Next]_vars /\ WF_vars(Continue)

\* One call in flight, with the requests that differ in their account, among
\* the other operations of the controller.
NextOps ==
    \/ \E c \in Calls, r \in ConcRequests : acquireTokenSilent(c, r)
    \/ \E c \in Calls, r \in ConcRequests : acquireTokenPopup(c, r)
    \/ Continue
    \/ \E op \in UnsupportedOps : Unsupported(op)

SpecOps == InitSeq /\ [][NextOps]_vars

\* The application calls hydrateCache, one call after the other, while the
\* clock moves.
NextHydrate ==
    \/ \E c \in Calls, result \in HydrateResults :
          HydrateCache(c, result, DEFAULT_REQUEST)
    \/ \E c \in Calls : HydrateComplete(c)
    \/ \E c \in Calls, partial \in BOOLEAN : HydrateCacheReject(c, partial)
    \/ \E c \in Calls : HydrateCacheReturn(c)
    \/ Tick

SpecHydrate == InitConc /\ [][NextHydrate]_vars

\* Concurrent calls, with the requests that differ in their account, among
\* setActiveAccount calls and the moves of the clock.
\* Call c1 asks for account A and call c2 for account B.
AccountOf(c) == IF c = "c1" THEN "A" ELSE "B"

ConcRequest(c) == Request(AccountOf(c), NoCid, NoAuthority, {})

\* Both accounts are stored and the bridge's home account is A.
InitRace ==
    /\ InitConc
    /\ accounts = Accounts
    /\ bridgeHome = "A"

NextConc ==
    \/ \E c \in Calls : acquireTokenSilent(c, ConcRequest(c))
    \/ \E c \in Calls : acquireTokenPopup(c, ConcRequest(c))
    \/ Continue
    \/ \E a \in Accounts \cup {NoAccount} : SetActiveAccount(a)

SpecConc == InitRace /\ [][NextConc]_vars

\* The steps of the calls in flight when the host answers each call with
\* tokens of the account the call asked for.
ContinueOwn ==
    \/ \E c \in Calls : EvictComplete(c)
    \/ \E c \in Calls, partial \in BOOLEAN : EvictFail(c, partial)
    \/ \E c \in Calls : CacheResume(c)
    \/ \E c \in Calls : SilentResume(c)
    \/ \E c \in Calls, expiresIn \in 1..MaxExpiresIn :
          BridgeResolve(c, req[c].account, expiresIn)
    \/ \E c \in Calls, e \in BridgeErrors : BridgeReject(c, e)
    \/ \E c \in Calls : BridgeMalformed(c)
    \/ \E c \in Calls : HydrateComplete(c)
    \/ \E c \in Calls, partial \in BOOLEAN : HydrateFail(c, partial)
    \/ \E c \in Calls : Finish(c)

\* Concurrent calls for different accounts: c1 for A, c2 for B.
NextIndep ==
    \/ \E c \in Calls : acquireTokenSilent(c, ConcRequest(c))
    \/ \E c \in Calls : acquireTokenPopup(c, ConcRequest(c))
    \/ ContinueOwn

SpecIndep == InitRace /\ [][NextIndep]_vars

\* Two acquireTokenSilent calls of the application for the same account:
\* both pass account A, the bridge answers for the account it was asked for.
SameRequest == Request("A", NoCid, NoAuthority, {})

NextSame ==
    \/ \E c \in Calls : acquireTokenSilent(c, SameRequest)
    \/ ContinueOwn

SpecSame == InitRace /\ [][NextSame]_vars

\* Silent calls over requests that also carry an authority and a field the
\* controller does not read.
WideRequests ==
    { [account |-> acc, correlationId |-> cid, authority |-> auth,
       scopes |-> sc, claims |-> "claims1"] :
        acc \in Accounts \cup {NoAccount},
        cid \in {NoCid, "r1"},
        auth \in {NoAuthority, "authority1"},
        sc \in {{}, {"s1"}} }

NextLookup ==
    \/ \E c \in Calls, r \in WideRequests : acquireTokenSilent(c, r)
    \/ \E c \in Calls, r \in WideRequests : ssoSilent(c, r)
    \/ Continue

SpecLookup == InitSeq /\ [][NextLookup]_vars

\* new NestedAppAuthController(operatingContext): the bridge proxy is taken
\* from the operating context first; without one the constructor throws.
constructor_NoCheck ==
    /\ controller.state = "none"
    /\ controller' = Constructed(operatingContext.bridgeProxy)
    /\ UNCHANGED <<now, accounts, accessTokens, idTokens, activeAccount,
                   bridgeHome, callers, pc, api, req, validReq, res, err,
                   purge, reqTimestamp, trace, storage0, lastOp, arg, locals,
                   operatingContext, initCalls>>

constructor ==
    /\ controller.state = "none"
    /\ controller' =
          IF operatingContext.bridgeProxy # "undefined"
          THEN Constructed(operatingContext.bridgeProxy)
          ELSE [state |-> "threw", bridgeProxy |-> "undefined",
                created |-> {}]
    /\ UNCHANGED <<now, accounts, accessTokens, idTokens, activeAccount,
                   bridgeHome, callers, pc, api, req, validReq, res, err,
                   purge, reqTimestamp, trace, storage0, lastOp, arg, locals,
                   operatingContext, initCalls>>

\* Before construction, over an operating context with or without a bridge
\* proxy.
InitConstruct ==
    /\ InitStorage
    /\ callers = {"c1"}
    /\ operatingContext \in
          {OperatingContext(proxy) : proxy \in {"undefined", "bridge"}}
    /\ controller = NoController

\* Only a constructed controller has methods to call.
NextConstruct ==
    \/ constructor
    \/ \E c \in Calls :
          controller.state = "constructed"
          /\ acquireTokenSilent(c, ConcRequest(c))
    \/ \E c \in Calls :
          controller.state = "constructed"
          /\ acquireTokenPopup(c, ConcRequest(c))
    \/ ContinueOwn

SpecConstruct == InitConstruct /\ [][NextConstruct]_vars

\* One call, among the operations that do nothing.
NextQuiet ==
    \/ \E c \in Calls, r \in ConcRequests : acquireTokenSilent(c, r)
    \/ \E c \in Calls, r \in ConcRequests : acquireTokenPopup(c, r)
    \/ Continue
    \/ \E op \in NoOps : NoOp(op)

SpecQuiet == InitSeq /\ [][NextQuiet]_vars

\* A new TeamsAppOperatingContext: no bridge proxy, no active account, not
\* available; its configuration may or may not support nested app auth, and
\* it may run with or without a window.  No controller exists yet.
InitContext ==
    /\ InitStorage
    /\ accounts = {} /\ bridgeHome = "unknown"
    /\ callers = {}
    /\ controller = NoController
    /\ operatingContext \in
          { [bridgeProxy |-> "undefined", activeAccount |-> NoAccount,
             available |-> FALSE, supportsNestedAppAuth |-> s, window |-> w] :
               s \in BOOLEAN, w \in BOOLEAN }

NextContext ==
    \/ \E i \in InitCalls : Initialize(i)
    \/ \E i \in InitCalls, caps \in HostCapabilities : CreateResolve(i, caps)
    \/ \E i \in InitCalls : CreateReject(i)
    \/ \E i \in InitCalls, acct \in Accounts \cup {NoAccount} :
          GetActiveAccountResolve(i, acct)
    \/ \E i \in InitCalls : GetActiveAccountReject(i)
    \/ \E a \in Accounts : ContextSetActiveAccount(a)

SpecContext == InitContext /\ [][NextContext]_vars

\* ------------------------------------------------------- reading a trace
\* How often a call did op.
Count(c, op) == Cardinality({i \in 1..Len(trace[c]) : trace[c][i].op = op})

Did(c, op) == \E i \in 1..Len(trace[c]) : trace[c][i].op = op

\* The positions of op in a call's trace.
Positions(c, op) == {i \in 1..Len(trace[c]) : trace[c][i].op = op}

\* Every op1 of the call comes before every op2 of the call.
Before(c, op1, op2) ==
    \A i \in Positions(c, op1), j \in Positions(c, op2) : i < j

\* The step in which a silent call starts and looks the cache up.
SilentStartStep(c) ==
    pc[c] = "idle" /\ pc'[c] # "idle" /\ api'[c] \in SilentApis

\* What the claims say of a request and the storage, read off the storage
\* directly: the account the lookup is for ...
ResolvedAccount(r) ==
    IF r.account # NoAccount THEN r.account
    ELSE IF bridgeHome \in accounts THEN bridgeHome
    ELSE NoAccount

\* ... the scopes the lookup asks for ...
WantedScopes(r) == IF r.scopes = {} THEN OIDC_DEFAULT_SCOPES ELSE r.scopes

\* ... whether storage holds an access token matching the request ...
HoldsMatching(r) ==
    /\ ResolvedAccount(r) # NoAccount
    /\ accessTokens[ResolvedAccount(r)].present
    /\ WantedScopes(r) \subseteq accessTokens[ResolvedAccount(r)].scopes

\* ... and whether that token is fresh now.
FreshNow(at) ==
    /\ at.cachedAt <= now
    /\ now < at.expiresOn - tokenRenewalOffsetSeconds

\* ------------------------------------------------------------------ claims
\* C1: a silent call (acquireTokenSilent or ssoSilent) whose account resolves
\* and for which storage holds a fresh matching access token and an id token
\* gets a result built from exactly those cached tokens; a call that holds a
\* result from the cache never calls getTokenSilent or getTokenInteractive,
\* never calls hydrateCache, never writes the active account, and never
\* fails: it returns that result.
C1_CacheHitNoBridge ==
    /\ [][\A c \in Calls :
            (SilentStartStep(c) /\ HoldsMatching(req'[c])
             /\ FreshNow(accessTokens[ResolvedAccount(req'[c])])
             /\ idTokens[ResolvedAccount(req'[c])] # NoSecret)
            => /\ res'[c].ok /\ res'[c].fromCache
               /\ res'[c].account = ResolvedAccount(req'[c])
               /\ res'[c].accessToken
                    = accessTokens[ResolvedAccount(req'[c])].secret
               /\ res'[c].idToken = idTokens[ResolvedAccount(req'[c])]
               /\ pc'[c] = "cacheInternal"]_vars
    /\ [](\A c \in Calls :
            (res[c].ok /\ res[c].fromCache)
            => /\ pc[c] \in {"cacheInternal", "cacheDone", "done"}
               /\ ~Did(c, "getTokenSilent") /\ ~Did(c, "getTokenInteractive")
               /\ ~Did(c, "setAccount") /\ ~Did(c, "hydrateCache")
               /\ ~Did(c, "setActiveAccount")
               /\ ~Did(c, "removeAccountContext"))
    /\ [][\A c \in Calls :
            (res[c].ok /\ res[c].fromCache) => res'[c] = res[c]]_vars

\* A silent call has returned a result from the cache.
C1_Witness ==
    \E c \in Calls :
        /\ pc[c] = "done" /\ api[c] \in SilentApis
        /\ res[c].ok /\ res[c].fromCache /\ res[c].accessToken = "at-old"

\* C2: an access token a silent call serves from the cache is, at the time
\* of the lookup, not cached after the current time and strictly before
\* expiresOn - tokenRenewalOffsetSeconds.
C2_ServedTokenFresh ==
    [][\A c \in Calls :
         (SilentStartStep(c) /\ res'[c].ok)
         => /\ accessTokens[res'[c].account].present
            /\ accessTokens[res'[c].account].secret = res'[c].accessToken
            /\ accessTokens[res'[c].account].cachedAt <= now
            /\ now < accessTokens[res'[c].account].expiresOn
                       - tokenRenewalOffsetSeconds]_vars

\* A token was served from the cache one second before the renewal margin,
\* after the clock had moved.
C2_Witness ==
    \E c \in Calls :
        /\ res[c].ok /\ res[c].fromCache /\ pc[c] = "cacheInternal"
        /\ now > 0
        /\ now = res[c].expiresOn - tokenRenewalOffsetSeconds - 1

\* C3: when the matching cached access token has
\* now >= expiresOn - tokenRenewalOffsetSeconds (the boundary included), the
\* lookup invokes removeAccountContext for the account and holds no result;
\* when the lookup returns after it, the account has no access token and no
\* id token left.
C3_StaleEvicts ==
    /\ [][\A c \in Calls :
            (SilentStartStep(c) /\ HoldsMatching(req'[c])
             /\ now >= accessTokens[ResolvedAccount(req'[c])].expiresOn
                         - tokenRenewalOffsetSeconds)
            => /\ ~res'[c].ok
               /\ pc'[c] = "evicting"
               /\ purge'[c] = ResolvedAccount(req'[c])
               /\ Count(c, "removeAccountContext")' = 1]_vars
    /\ [][\A c \in Calls :
            (pc[c] = "evicting" /\ pc'[c] = "cacheInternal")
            => /\ ~res'[c].ok
               /\ ~accessTokens'[purge[c]].present
               /\ idTokens'[purge[c]] = NoSecret]_vars

\* The lookup returned absent after evicting a token found exactly at the
\* boundary now = expiresOn - tokenRenewalOffsetSeconds, whose id token was
\* still cached.
C3_Witness ==
    \E c \in Calls :
        /\ pc[c] = "cacheInternal" /\ purge[c] # NoAccount
        /\ storage0[2][purge[c]].present
        /\ storage0[3][purge[c]] # NoSecret
        /\ now = storage0[2][purge[c]].expiresOn - tokenRenewalOffsetSeconds
        /\ storage0[2][purge[c]].cachedAt <= now
        /\ ~accessTokens[purge[c]].present
        /\ idTokens[purge[c]] = NoSecret

\* The calls that called a token method of the bridge.
CalledBridge(c) == Did(c, "getTokenSilent") \/ Did(c, "getTokenInteractive")

\* The errors that are raised raw: by the bridge, by the response
\* conversion, by the storage.
RawErrors == BridgeErrors \cup {ConversionError, StorageError}

\* C4: when the bridge call, the response conversion or the hydration raised
\* e (the error the failure event carries), the call rejects with
\* fromBridgeError(e), which is never e itself nor any raw error.
C4_BridgeErrorConverted ==
    \A c \in Calls :
        (pc[c] = "failed" /\ CalledBridge(c))
        => \E i \in 1..Len(trace[c]) :
              /\ trace[c][i].op = "ACQUIRE_TOKEN_FAILURE"
              /\ trace[c][i].err \in RawErrors
              /\ err[c] = fromBridgeError(trace[c][i].err)
              /\ err[c] # trace[c][i].err
              /\ err[c] \notin RawErrors

\* A call rejected after its hydration raised, and another after the bridge
\* rejected: both with converted errors.
C4_Witness ==
    \E c \in Calls :
        /\ pc[c] = "failed" /\ Did(c, "hydrateCache")
        /\ err[c] = "msal:unknown_error"

C6_UnsupportedNoEffect ==
    /\ [][lastOp' # lastOp
           => /\ lastOp'.op \in UnsupportedOps
              /\ lastOp'.outcome = UnsupportedError
              /\ UNCHANGED <<accounts, accessTokens, idTokens, activeAccount,
                             trace, pc, res, err, purge, now>>]_vars
    /\ [](lastOp.op \in UnsupportedOps => lastOp.outcome = UnsupportedError)

\* clearCache threw while a call was waiting for the bridge and storage held
\* tokens.
C6_Witness ==
    /\ lastOp = [op |-> "clearCache", outcome |-> UnsupportedError]
    /\ \E c \in Calls : pc[c] = "bridge"
    /\ \E a \in Accounts : accessTokens[a].present

\* The requests without a correlation identifier.
NoCorrelationId(c) == pc[c] # "idle" /\ ~Truthy(req[c].correlationId)

\* Every entry of the call's trace with one of these ops carries cid.
Carry(c, ops, cid) ==
    \A i \in 1..Len(trace[c]) : trace[c][i].op \in ops => trace[c][i].cid = cid

\* C7 as stated: for a request without a correlation identifier the
\* normalized request carries a non-empty generated one, and when a bridge
\* call occurred the success or failure event of the call and the result
\* carry it.
C7_Original ==
    \A c \in Calls :
        NoCorrelationId(c)
        => /\ Truthy(validReq[c].correlationId)
           /\ CalledBridge(c) /\ pc[c] \in {"done", "failed"}
              => /\ trace[c][Len(trace[c]) - 1].op
                      \in {"ACQUIRE_TOKEN_SUCCESS", "ACQUIRE_TOKEN_FAILURE"}
                 /\ trace[c][Len(trace[c]) - 1].cid = validReq[c].correlationId
                 /\ pc[c] = "done"
                    => res[c].correlationId = validReq[c].correlationId

\* C7, amended: for a request without a correlation identifier the
\* normalized request carries a non-empty identifier generated once; the
\* start event, the bridge request, every success event and the result of
\* the call carry that identifier, while the failure events carry no
\* payload and so no identifier.
C7_GeneratedIdCarried ==
    \A c \in Calls :
        NoCorrelationId(c)
        => /\ Truthy(validReq[c].correlationId)
           /\ Count(c, "createNewGuid") = 1
           /\ Carry(c, {"createNewGuid", "ACQUIRE_TOKEN_START",
                        "getTokenSilent", "getTokenInteractive",
                        "ACQUIRE_TOKEN_SUCCESS"},
                    validReq[c].correlationId)
           /\ Count(c, "ACQUIRE_TOKEN_START") = 1
           /\ Carry(c, {"ACQUIRE_TOKEN_FAILURE"}, NoCid)
           /\ pc[c] = "done" => res[c].correlationId = validReq[c].correlationId

\* A call without a correlation identifier went through the bridge and
\* returned.
C7_Witness ==
    \E c \in Calls :
        /\ NoCorrelationId(c) /\ CalledBridge(c) /\ pc[c] = "done"
        /\ Did(c, "ACQUIRE_TOKEN_SUCCESS")
        /\ res[c].correlationId = createNewGuid(c)

\* The call's trace has exactly one entry of each op, in this order.
InOrder(c, ops) ==
    /\ \A i \in 1..Len(ops) : Count(c, ops[i]) = 1
    /\ \A i \in 1..(Len(ops) - 1) : Before(c, ops[i], ops[i + 1])

\* A silent call that evicted the stale tokens of an account and was then
\* answered by the bridge with tokens of that same account.
RefreshedStale(c) ==
    /\ api[c] \in SilentApis /\ pc[c] = "done"
    /\ purge[c] # NoAccount
    /\ res[c].ok /\ res[c].account = purge[c]

\* C9: a silent call that found a stale token of account A and is answered
\* by the bridge with tokens of A runs in the order: eviction of A's tokens
\* started and completed, one getTokenSilent, account stored and hydration
\* started and completed, active account set; it returns the bridge's
\* result, whose account is A and is the active account, and A's cached
\* tokens are the ones the bridge returned, not the evicted ones.
C9_StaleRefreshOrder ==
    \A c \in Calls :
        RefreshedStale(c)
        => /\ InOrder(c, <<"getAccessToken", "removeAccountContext", "removed",
                           "getTokenSilent", "setAccount", "hydrateCache",
                           "hydrated", "setActiveAccount">>)
           /\ ~Did(c, "getTokenInteractive")
           /\ ~res[c].fromCache
           /\ res[c].accessToken = IssuedAccessToken(c)
           /\ activeAccount = res[c].account
           /\ res[c].account \in accounts
           /\ accessTokens[purge[c]].present
           /\ accessTokens[purge[c]].secret = res[c].accessToken
           /\ accessTokens[purge[c]].secret # storage0[2][purge[c]].secret
           /\ idTokens[purge[c]] = res[c].idToken
           /\ idTokens[purge[c]] # storage0[3][purge[c]]

\* Such a call returned; the evicted account held a token pair.
C9_Witness ==
    \E c \in Calls :
        /\ RefreshedStale(c)
        /\ storage0[2][purge[c]].present
        /\ storage0[3][purge[c]] # NoSecret
        /\ accessTokens[purge[c]].secret = IssuedAccessToken(c)

\* A silent call whose request names no account while the bridge's home
\* account identifier matches no stored account.
NoAccountResolved(c) ==
    /\ api[c] \in SilentApis /\ pc[c] # "idle"
    /\ req[c].account = NoAccount
    /\ getAccountByHomeId(bridgeHome, storage0[1]) = NoAccount

\* C10: when neither the request nor the bridge's home account resolves an
\* account, the cache lookup reads no token and evicts nothing, leaves the
\* storage as it was and yields no cached result; the call then makes
\* exactly one getTokenSilent call and no interactive one.
C10_NoAccountGoesToBridge ==
    /\ [](\A c \in Calls :
            NoAccountResolved(c)
            => /\ ~Did(c, "getAccessToken") /\ ~Did(c, "getIdToken")
               /\ ~Did(c, "removeAccountContext") /\ ~Did(c, "removed")
               /\ purge[c] = NoAccount /\ pc[c] # "evicting"
               /\ ~(res[c].ok /\ res[c].fromCache)
               /\ ~Did(c, "getTokenInteractive")
               /\ pc[c] \in {"cacheInternal", "cacheDone"}
                  => /\ ~res[c].ok /\ ~Did(c, "getTokenSilent")
                     /\ <<accounts, accessTokens, idTokens>> = storage0
               /\ pc[c] \notin {"cacheInternal", "cacheDone"}
                  => Count(c, "getTokenSilent") = 1)
    /\ [][\A c \in Calls :
            (NoAccountResolved(c) /\ pc[c] = "cacheDone" /\ pc'[c] # pc[c])
            => /\ pc'[c] = "bridge"
               /\ Count(c, "getTokenSilent")' = 1]_vars

\* Such a call reached the bridge while storage held another account's
\* fresh token pair.
C10_Witness ==
    \E c \in Calls :
        /\ NoAccountResolved(c) /\ pc[c] = "bridge"
        /\ Count(c, "getTokenSilent") = 1
        /\ \E a \in accounts : accessTokens[a].present /\ idTokens[a] # NoSecret

\* Call c of hydrateCache is a second call: another call of hydrateCache
\* with the same result and request has returned.  (Primed: it is read in
\* the state a step of c leads to.)
SecondHydrate(c) ==
    /\ api'[c] = "hydrateCache"
    /\ pc'[c] # pc[c]
    /\ \E d \in Calls \ {c} :
          /\ api[d] = "hydrateCache" /\ pc[d] = "done"
          /\ res[d] = res'[c] /\ req[d] = req'[c]

BridgeCalls(c) == Count(c, "getTokenSilent") + Count(c, "getTokenInteractive")

\* C11: a call invokes a token method of the bridge at most once - a silent
\* call only getTokenSilent, an interactive call only getTokenInteractive -
\* and once the bridge call has failed the call makes no further bridge call:
\* the step in which the bridge rejects is the step in which the call fails,
\* and a failed call takes no further step.
C11_NoRetry ==
    /\ [](\A c \in Calls :
            /\ BridgeCalls(c) <= 1
            /\ api[c] \in SilentApis => ~Did(c, "getTokenInteractive")
            /\ api[c] \in InteractiveApis => ~Did(c, "getTokenSilent"))
    /\ [][\A c \in Calls :
            /\ (pc[c] = "bridge" /\ trace'[c] # trace[c]
                /\ Count(c, "ACQUIRE_TOKEN_FAILURE")'
                     > Count(c, "ACQUIRE_TOKEN_FAILURE"))
               => pc'[c] = "failed" /\ BridgeCalls(c)' = BridgeCalls(c)
            /\ pc[c] = "failed"
               => pc'[c] = "failed" /\ trace'[c] = trace[c]]_vars

\* A call failed at the bridge after its one bridge call.
C11_Witness ==
    \E c \in Calls :
        /\ pc[c] = "failed" /\ BridgeCalls(c) = 1
        /\ err[c] = "msal:no_network"

\* The entries of a call's trace by the step they belong to.
StartOps == {"ACQUIRE_TOKEN_START"}
LookupOps == {"getAccessToken", "getIdToken", "removeAccountContext", "removed"}
BridgeOps == {"getTokenSilent", "getTokenInteractive"}
HydrateOps == {"setAccount", "hydrateCache", "hydrated"}
ActiveOps == {"setActiveAccount"}
EventOps == {"ACQUIRE_TOKEN_SUCCESS", "ACQUIRE_TOKEN_FAILURE"}

\* Every entry of the call with an op of ops1 comes before every entry with
\* an op of ops2.
AllBefore(c, ops1, ops2) ==
    \A i, j \in 1..Len(trace[c]) :
        (trace[c][i].op \in ops1 /\ trace[c][j].op \in ops2) => i < j

\* The steps of a call are sequential: start event, cache check, bridge call,
\* hydration, active-account assignment; while the cache check is in flight
\* no bridge call was made, and the bridge call of a silent call begins
\* after the measurement of the cache check was ended.
StepsSequential(c) ==
    /\ Count(c, "ACQUIRE_TOKEN_START") = 1
    /\ AllBefore(c, StartOps,
                 LookupOps \cup BridgeOps \cup HydrateOps \cup ActiveOps
                 \cup EventOps)
    /\ AllBefore(c, LookupOps \cup {"end:AcquireTokenSilent"}, BridgeOps)
    /\ AllBefore(c, BridgeOps, HydrateOps)
    /\ AllBefore(c, {"setAccount"}, {"hydrateCache"})
    /\ AllBefore(c, {"hydrateCache"}, {"hydrated"})
    /\ AllBefore(c, HydrateOps, ActiveOps)
    /\ Did(c, "setActiveAccount") => Did(c, "hydrated")
    /\ Did(c, "hydrateCache") => BridgeCalls(c) = 1
    /\ pc[c] \in {"evicting", "cacheInternal", "cacheDone"} => BridgeCalls(c) = 0
    /\ (pc[c] = "bridge" /\ api[c] \in SilentApis)
       => Did(c, "end:AcquireTokenSilent")

C14_Original ==
    /\ \A c \in Calls : (pc[c] # "idle") ~> (pc[c] \in {"done", "failed"})
    /\ [](\A c \in Calls :
            /\ pc[c] = "done" => res[c].ok /\ err[c] = NoErr
            /\ pc[c] = "failed" => ~res[c].ok /\ err[c] \in ConvertedErrors
            /\ pc[c] \notin {"done", "failed"} => err[c] = NoErr)

\* A silent call whose eviction of stale tokens was rejected by the storage:
\* it failed with the storage's error as it was raised, without any failure
\* event, and its measurement was never ended.
C14_Witness ==
    \E c \in Calls :
        /\ pc[c] = "failed" /\ err[c] = StorageError
        /\ err[c] \notin ConvertedErrors
        /\ ~Did(c, "ACQUIRE_TOKEN_FAILURE")
        /\ Did(c, "start:AcquireTokenSilent") /\ ~Did(c, "end:AcquireTokenSilent")

\* A silent call whose cache lookup has missed or is evicting, and has not
\* yet gone on to the bridge.
InMiss(c) ==
    /\ api[c] \in SilentApis
    /\ pc[c] \in {"evicting", "cacheInternal", "cacheDone"}
    /\ ~res[c].ok

\* C15 as stated: in each case of a miss - no account, no access token,
\* stale access token with the eviction it triggers, no id token - the
\* lookup yields absent and the call goes on to the bridge call: from a miss
\* the call only steps on towards the bridge, it raises nothing, and no
\* silent call has failed without having called the bridge.
C15_Original ==
    /\ [][\A c \in Calls :
            (InMiss(c) /\ pc'[c] # pc[c])
            => /\ err'[c] = NoErr
               /\ pc[c] = "evicting" => pc'[c] = "cacheInternal"
               /\ pc[c] = "cacheInternal" => pc'[c] = "cacheDone"
               /\ pc[c] = "cacheDone"
                  => pc'[c] = "bridge" /\ Count(c, "getTokenSilent")' = 1]_vars
    /\ [](\A c \in Calls :
            (api[c] \in SilentApis /\ pc[c] = "failed") => CalledBridge(c))

\* The lookup of a silent call found a stale access token, the storage
\* rejected the eviction after the id token was gone, and the call failed
\* without a bridge call.
C15_Witness ==
    \E c \in Calls :
        /\ api[c] \in SilentApis /\ pc[c] = "failed" /\ ~CalledBridge(c)
        /\ Did(c, "removeAccountContext") /\ ~Did(c, "removed")
        /\ accessTokens[purge[c]].present
        /\ storage0[3][purge[c]] # NoSecret /\ idTokens[purge[c]] = NoSecret

\* An acquisition call that was answered by the bridge and has been hydrated.
BridgeBacked(c) ==
    /\ api[c] \in SilentApis \cup InteractiveApis
    /\ pc[c] \in {"hydrated", "done"}
    /\ BridgeCalls(c) = 1

\* Storage holds the account and the tokens of a result.
Stored(r) ==
    /\ r.account \in accounts
    /\ accessTokens[r.account].present
    /\ accessTokens[r.account].secret = r.accessToken
    /\ accessTokens[r.account].expiresOn = r.expiresOn
    /\ accessTokens[r.account].scopes = r.scopes
    /\ idTokens[r.account] = r.idToken

\* C16: once a call that went through the bridge has been hydrated, and when
\* it has returned, storage holds the account and the tokens of its result;
\* the step that assigns the active account sets it to the account of the
\* result and is taken only from a completed hydration; a call whose
\* hydration has not completed has not assigned the active account.
C16_HydratedThenActive ==
    /\ [](\A c \in Calls :
            /\ BridgeBacked(c)
               => /\ res[c].ok /\ ~res[c].fromCache
                  /\ res[c].accessToken = IssuedAccessToken(c)
                  /\ Stored(res[c])
            /\ (BridgeBacked(c) /\ pc[c] = "done")
               => /\ activeAccount = res[c].account
                  /\ InOrder(c, <<"hydrateCache", "hydrated",
                                  "setActiveAccount">>)
            /\ pc[c] \in {"bridge", "hydrate", "hydrated", "failed"}
               => ~Did(c, "setActiveAccount") /\ activeAccount = NoAccount)
    /\ [][\A c \in Calls :
            Count(c, "setActiveAccount")' > Count(c, "setActiveAccount")
            => /\ pc[c] = "hydrated" /\ Did(c, "hydrated")
               /\ Stored(res[c])
               /\ activeAccount' = res[c].account
               /\ res'[c] = res[c]]_vars

\* An interactive call returned the bridge's result for an account that was
\* not stored before; it is stored with its tokens and is the active account.
C16_Witness ==
    \E c \in Calls :
        /\ BridgeBacked(c) /\ pc[c] = "done" /\ api[c] \in InteractiveApis
        /\ res[c].account \notin storage0[1]
        /\ Stored(res[c]) /\ activeAccount = res[c].account

\* An interactive call that has started.
Interactive(c) == api[c] \in InteractiveApis /\ pc[c] # "idle"

\* C18: an interactive call, whatever storage holds, has called
\* getTokenInteractive exactly once as soon as it has started and never
\* calls getTokenSilent; it reads no cached token, evicts nothing, serves
\* nothing from the cache, and while it waits for the bridge the storage is
\* what it was when the call started.
C18_InteractiveSkipsCache ==
    \A c \in Calls :
        Interactive(c)
        => /\ Count(c, "getTokenInteractive") = 1
           /\ ~Did(c, "getTokenSilent")
           /\ \A op \in LookupOps \cup {"start:AcquireTokenSilent"} : ~Did(c, op)
           /\ purge[c] = NoAccount
           /\ pc[c] \in {"bridge", "hydrate", "hydrated", "done", "failed"}
           /\ ~(res[c].ok /\ res[c].fromCache)
           /\ pc[c] = "bridge"
              => /\ <<accounts, accessTokens, idTokens>> = storage0
                 /\ activeAccount = NoAccount

\* acquireTokenPopup waits for the bridge although storage holds a fresh
\* access token with the requested scopes and an id token for the request's
\* account.
C18_Witness ==
    \E c \in Calls :
        /\ Interactive(c) /\ pc[c] = "bridge" /\ api[c] = "acquireTokenPopup"
        /\ req[c].account \in accounts
        /\ accessTokens[req[c].account].present
        /\ ~IsStale(accessTokens[req[c].account], now)
        /\ validReq[c].scopes \subseteq accessTokens[req[c].account].scopes
        /\ idTokens[req[c].account] # NoSecret

\* The accounts whose account entity or tokens a step creates or updates
\* (a removal is neither).
Written ==
    {a \in Accounts :
        \/ a \in accounts' \ accounts
        \/ accessTokens'[a].present /\ accessTokens'[a] # accessTokens[a]
        \/ idTokens'[a] # NoSecret /\ idTokens'[a] # idTokens[a]}

\* C19: a step that creates or updates an account or a token belongs to the
\* hydrateCache of one call - the step that stores the account and starts
\* the hydration, or the one that ends it - and writes the account of that
\* call's result only; hydrateCache is invoked by a call only after its one
\* bridge call was made and answered with a result, never after a failure;
\* and no step of the cache lookup creates or updates anything.
C19_OnlyHydrateWrites ==
    /\ [][Written # {}
           => \E c \in Calls :
                 /\ \/ pc[c] = "bridge" /\ pc'[c] = "hydrate"
                    \/ pc[c] = "hydrate" /\ pc'[c] \in {"hydrated", "failed"}
                 /\ Did(c, "hydrateCache")'
                 /\ BridgeCalls(c) = 1
                 /\ IF pc[c] = "bridge" THEN res'[c].ok ELSE res[c].ok
                 /\ Written = {IF pc[c] = "bridge" THEN res'[c].account
                               ELSE res[c].account}]_vars
    /\ [][\A c \in Calls :
            (pc[c] \in {"idle", "evicting", "cacheInternal", "cacheDone"}
             /\ pc'[c] # pc[c])
            => Written = {}]_vars
    /\ [](\A c \in Calls :
            Did(c, "hydrateCache")
            => /\ BridgeCalls(c) = 1
               /\ Count(c, "hydrateCache") = 1
               /\ AllBefore(c, BridgeOps, {"setAccount", "hydrateCache"})
               /\ \A i \in Positions(c, "hydrateCache") :
                     \A j \in 1..i :
                        ~(trace[c][j].op = "ACQUIRE_TOKEN_FAILURE"
                          /\ trace[c][j].err # NoErr))

\* A call returned whose hydration stored an account that was not stored
\* before, with its tokens; the entries of the other accounts are untouched.
C19_Witness ==
    \E c \in Calls :
        /\ pc[c] = "done" /\ Did(c, "hydrated")
        /\ res[c].account \notin storage0[1]
        /\ accessTokens[res[c].account].secret = IssuedAccessToken(c)
        /\ \A a \in Accounts \ {res[c].account} :
              /\ accessTokens[a] = storage0[2][a]
              /\ idTokens[a] = storage0[3][a]

\* The bookkeeping of a failure with the raw error e, as the last entries
\* of the call's trace: the failure event carrying e, then the end of the
\* measurement of the bridge attempt with success = false.
FailureBookkeeping(c, e) ==
    LET n == Len(trace[c]) IN
    /\ n >= 2
    /\ trace[c][n - 1] = Ev("ACQUIRE_TOKEN_FAILURE", NoCid, e)
    /\ trace[c][n] = End(EndBridgeMeasurement(c), NoCid, FALSE, e)
    /\ ~trace[c][n].ok

\* C20: the step in which the bridge call of a call rejects makes the call
\* fail with the converted error, with no result; by then the failure event
\* carrying the bridge's error as it was raised has been emitted and after it
\* the measurement of the bridge attempt ended with success = false, and
\* neither a success event nor a successful end of that measurement follows;
\* a failed call never returns a result.
C20_FailureBookkeeping ==
    /\ [](\A c \in Calls :
            (pc[c] = "failed" /\ BridgeCalls(c) = 1)
            => /\ ~res[c].ok
               /\ \E e \in RawErrors :
                     /\ FailureBookkeeping(c, e)
                     /\ err[c] = fromBridgeError(e) /\ err[c] # e
               /\ Count(c, EndBridgeMeasurement(c)) = 1
               /\ ~Did(c, "setActiveAccount")
               /\ \A i \in Positions(c, BridgeMethod(c)) :
                     \A j \in i..Len(trace[c]) :
                        trace[c][j].op # "ACQUIRE_TOKEN_SUCCESS")
    /\ [][\A c \in Calls :
            /\ (pc[c] = "bridge" /\ pc'[c] = "failed")
               => \E e \in BridgeErrors \cup {ConversionError} :
                     /\ trace'[c] = trace[c]
                          \o <<Ev("ACQUIRE_TOKEN_FAILURE", NoCid, e),
                               End(EndBridgeMeasurement(c), NoCid, FALSE, e)>>
                     /\ err'[c] = fromBridgeError(e)
            /\ pc[c] = "failed" => pc'[c] = "failed" /\ res'[c] = res[c]]_vars

\* The bridge rejected a silent call with USER_CANCEL: the failure event
\* carries that error, the call fails with the converted one.
C20_Witness ==
    \E c \in Calls :
        /\ pc[c] = "failed" /\ Did(c, "getTokenSilent")
        /\ FailureBookkeeping(c, "bridge:USER_CANCEL")
        /\ err[c] = "msal:user_cancelled"

\* The step in which call c assigns the active account (line 323 / 228).
AssignsActive(c) == pc[c] = "hydrated" /\ pc'[c] = "done"

\* A step of setActiveAccount(a): it is the last other operation, and no
\* call moves in it.
ExplicitSet ==
    /\ lastOp'.op = "setActiveAccount"
    /\ pc' = pc /\ trace' = trace

\* C13: storage holds one active-account value, an account or none; every
\* active-account assignment of a bridge-backed call sets it to the account
\* of that call's result, every setActiveAccount(a) sets it to a, and it
\* changes in no other step - so at any time its value is that of the writer
\* that ran last, under every interleaving of the calls and setActiveAccount.
C13_LastWriterWins ==
    /\ [](activeAccount \in Accounts \cup {NoAccount})
    /\ [][\A c \in Calls : AssignsActive(c) => activeAccount' = res[c].account]_vars
    /\ [][(lastOp' # lastOp /\ lastOp'.op = "setActiveAccount")
            => activeAccount' = lastOp'.outcome]_vars
    /\ [][activeAccount' # activeAccount
            => \/ \E c \in Calls :
                     /\ AssignsActive(c)
                     /\ Count(c, "setActiveAccount")' = 1
                     /\ activeAccount' = res[c].account
               \/ ExplicitSet /\ activeAccount' = lastOp'.outcome]_vars

\* Both calls returned results of the bridge for different accounts after
\* setActiveAccount had been called with no account: the active account is
\* the account of one of the results, the one assigned last.
C13_Witness ==
    /\ \A c \in Calls : pc[c] = "done" /\ BridgeCalls(c) = 1
    /\ res["c1"].account # res["c2"].account
    /\ lastOp = [op |-> "setActiveAccount", outcome |-> NoAccount]
    /\ activeAccount = res["c1"].account
    /\ \E a \in Accounts : accessTokens[a].secret = IssuedAccessToken("c2")

\* The other call.
Other(c) == CHOOSE d \in Calls : d # c

\* What the cache lookup of a silent call yields on the storage the
\* controller was constructed over.
LookupAlone(c) ==
    CacheLookup(validReq[c], createNewGuid(c), bridgeHome,
                storage0[1], storage0[2], storage0[3], now)

\* The access token and the id tokens that the account of call c holds when
\* only c's own steps, as its trace tells them, have touched them.
AccessTokenAlone(c) ==
    IF Did(c, "hydrated")
    THEN [secret |-> IssuedAccessToken(c), present |-> TRUE]
    ELSE IF Did(c, "removed")
    THEN [secret |-> NoSecret, present |-> FALSE]
    ELSE [secret |-> storage0[2][AccountOf(c)].secret,
          present |-> storage0[2][AccountOf(c)].present]

IdTokensAlone(c) ==
    LET old == storage0[3][AccountOf(c)]
        evicted == IF Did(c, "removed") THEN {NoSecret}
                   ELSE IF Did(c, "removeAccountContext") THEN {old, NoSecret}
                   ELSE {old}
    IN  IF Did(c, "hydrated") THEN {IssuedIdToken(c)}
        ELSE IF Did(c, "hydrateCache") THEN evicted \cup {IssuedIdToken(c)}
        ELSE evicted

\* C17: with call c for one account and the other call for a different
\* account, no step of the other call changes anything of c (where it
\* stands, its result, its error, what it did) or the stored account and
\* tokens of c's account; the lookup of c yields what it yields on the
\* initial storage, the result c returns is the cached one of that lookup
\* or the one the bridge gave c, and the tokens of c's account are at any
\* time what c's own steps made them - whatever the other call did.  Only
\* the active account is shared.
C17_Independent ==
    /\ [][\A c \in Calls :
            pc'[Other(c)] # pc[Other(c)]
            => /\ pc'[c] = pc[c] /\ res'[c] = res[c] /\ err'[c] = err[c]
               /\ trace'[c] = trace[c] /\ purge'[c] = purge[c]
               /\ accessTokens'[AccountOf(c)] = accessTokens[AccountOf(c)]
               /\ idTokens'[AccountOf(c)] = idTokens[AccountOf(c)]
               /\ (AccountOf(c) \in accounts') = (AccountOf(c) \in accounts)]_vars
    /\ [](\A c \in Calls :
            pc[c] # "idle"
            => /\ req[c].account = AccountOf(c)
               /\ accessTokens[AccountOf(c)].secret = AccessTokenAlone(c).secret
               /\ accessTokens[AccountOf(c)].present = AccessTokenAlone(c).present
               /\ idTokens[AccountOf(c)] \in IdTokensAlone(c)
               /\ api[c] \in SilentApis
                  => /\ purge[c] = IF LookupAlone(c).kind = "stale"
                                   THEN AccountOf(c) ELSE NoAccount
                     /\ Did(c, "getTokenSilent") => LookupAlone(c).kind # "hit"
                     /\ (pc[c] = "done" /\ LookupAlone(c).kind = "hit")
                        => res[c] = LookupAlone(c).result
               /\ (pc[c] = "done" /\ BridgeCalls(c) = 1)
                  => /\ res[c].account = AccountOf(c)
                     /\ res[c].accessToken = IssuedAccessToken(c))

\* The call for B was served from the cache although the call for A had
\* evicted A's stale tokens and stored the bridge's tokens before it started.
C17_Witness ==
    /\ pc["c2"] = "done" /\ res["c2"].fromCache
    /\ res["c2"].accessToken = storage0[2]["B"].secret
    /\ pc["c1"] = "done" /\ Did("c1", "removed") /\ Did("c1", "hydrated")
    /\ accessTokens["A"].secret = IssuedAccessToken("c1")
    /\ accessTokens["B"] = storage0[2]["B"]
    /\ Len(trace["c2"]) > 0 /\ activeAccount = "A"

\* The lookup of a silent call asked for the id token and yielded absent:
\* it found an access token it did not evict, and no id token.
NoIdTokenMiss(c) ==
    /\ api[c] \in SilentApis
    /\ pc[c] \in {"cacheInternal", "cacheDone"}
    /\ Did(c, "getIdToken") /\ ~res[c].ok

\* C21: when the request's account holds a fresh matching access token and
\* no id token, the lookup yields absent without evicting: nothing is
\* removed and storage stays what it was until the call goes on, and the
\* call then makes its getTokenSilent call.
C21_NoIdTokenNoPurge ==
    /\ [][\A c \in Calls :
            (/\ SilentStartStep(c)
             /\ HoldsMatching(req'[c])
             /\ FreshNow(accessTokens[ResolvedAccount(req'[c])])
             /\ idTokens[ResolvedAccount(req'[c])] = NoSecret)
            => /\ ~res'[c].ok /\ pc'[c] = "cacheInternal"
               /\ purge'[c] = NoAccount
               /\ Count(c, "getIdToken")' = 1
               /\ ~Did(c, "removeAccountContext")'
               /\ UNCHANGED <<accounts, accessTokens, idTokens,
                              activeAccount>>]_vars
    /\ [](\A c \in Calls :
            NoIdTokenMiss(c)
            => /\ ~Did(c, "removeAccountContext") /\ ~Did(c, "removed")
               /\ purge[c] = NoAccount /\ BridgeCalls(c) = 0
               /\ <<accounts, accessTokens, idTokens>> = storage0
               /\ err[c] = NoErr)
    /\ [][\A c \in Calls :
            (NoIdTokenMiss(c) /\ pc'[c] # pc[c])
            => /\ pc[c] = "cacheInternal" => pc'[c] = "cacheDone"
               /\ pc[c] = "cacheDone"
                  => pc'[c] = "bridge" /\ Count(c, "getTokenSilent")' = 1
               /\ UNCHANGED <<accounts, accessTokens, idTokens,
                              activeAccount>>]_vars

\* Such a call waits for the bridge: the access token it found is still
\* cached, fresh, without an id token.
C21_Witness ==
    \E c \in Calls :
        /\ api[c] \in SilentApis /\ pc[c] = "bridge"
        /\ Did(c, "getIdToken") /\ Count(c, "getTokenSilent") = 1
        /\ HoldsMatching(req[c])
        /\ FreshNow(accessTokens[ResolvedAccount(req[c])])
        /\ idTokens[ResolvedAccount(req[c])] = NoSecret

\* A step in which the eviction a call started settles.
EvictionSettles(c) == pc[c] = "evicting" /\ pc'[c] # "evicting"

\* C25: the eviction of a silent call is for the account whose token its
\* lookup found stale, the one the request names; when it settles, the
\* tokens of that account are the only ones that may have gone: the tokens
\* of every other account, the stored accounts and the active account -
\* also when it is the evicted account - are left as they were; and the
\* step that starts the eviction changes nothing in storage.
C25_EvictionConfined ==
    /\ [](\A c \in Calls :
            pc[c] = "evicting"
            => /\ purge[c] = req[c].account /\ purge[c] \in Accounts
               /\ api[c] \in SilentApis)
    /\ [][\A c \in Calls :
            EvictionSettles(c)
            => /\ \A b \in Accounts \ {purge[c]} :
                     /\ accessTokens'[b] = accessTokens[b]
                     /\ idTokens'[b] = idTokens[b]
               /\ activeAccount' = activeAccount
               /\ accounts' = accounts
               /\ pc'[c] = "cacheInternal"
                  => /\ ~accessTokens'[purge[c]].present
                     /\ idTokens'[purge[c]] = NoSecret]_vars
    /\ [][\A c \in Calls :
            (pc[c] = "idle" /\ pc'[c] = "evicting")
            => UNCHANGED <<accounts, accessTokens, idTokens,
                           activeAccount>>]_vars

\* The call for A has evicted A's tokens while A is the active account and
\* B holds its token pair.
C25_Witness ==
    \E c \in Calls :
        /\ Did(c, "removed") /\ pc[c] = "cacheInternal" /\ purge[c] = "A"
        /\ storage0[2]["A"].present /\ ~accessTokens["A"].present
        /\ activeAccount = "A"
        /\ accessTokens["B"].present /\ idTokens["B"] # NoSecret

\* C27 as stated: a call that returned a result has emitted exactly one
\* start event, exactly one success event and no failure event; a call that
\* rejected has emitted exactly one start event, exactly one failure event
\* and no success event.
C27_Original ==
    \A c \in Calls :
        /\ pc[c] = "done"
           => /\ Count(c, "ACQUIRE_TOKEN_START") = 1
              /\ Count(c, "ACQUIRE_TOKEN_SUCCESS") = 1
              /\ Count(c, "ACQUIRE_TOKEN_FAILURE") = 0
        /\ pc[c] = "failed"
           => /\ Count(c, "ACQUIRE_TOKEN_START") = 1
              /\ Count(c, "ACQUIRE_TOKEN_FAILURE") = 1
              /\ Count(c, "ACQUIRE_TOKEN_SUCCESS") = 0

\* A silent call served from the cache returned after two success events.
C27_Witness ==
    \E c \in Calls :
        /\ pc[c] = "done" /\ res[c].fromCache /\ BridgeCalls(c) = 0
        /\ Count(c, "ACQUIRE_TOKEN_SUCCESS") = 2

\* The measurements an acquisition call starts.
Measurements == {"AcquireTokenSilent", "SsoSilent", "AcquireTokenPopup"}

StartOf(m) ==
    CASE m = "AcquireTokenSilent" -> "start:AcquireTokenSilent"
      [] m = "SsoSilent" -> "start:SsoSilent"
      [] OTHER -> "start:AcquireTokenPopup"

EndOf(m) ==
    CASE m = "AcquireTokenSilent" -> "end:AcquireTokenSilent"
      [] m = "SsoSilent" -> "end:SsoSilent"
      [] OTHER -> "end:AcquireTokenPopup"

\* C28 as stated: when a call has settled, every measurement it started was
\* ended exactly once (and none was ended that was not started).
C28_Original ==
    \A c \in Calls :
        pc[c] \in {"done", "failed"}
        => \A m \in Measurements :
              /\ Count(c, StartOf(m)) <= 1
              /\ Count(c, EndOf(m)) = Count(c, StartOf(m))

\* A silent call settled - it rejected with the storage's error - with its
\* cache-lookup measurement started and not ended.
C28_Witness ==
    \E c \in Calls :
        /\ pc[c] = "failed"
        /\ Count(c, "start:AcquireTokenSilent") = 1
        /\ Count(c, "end:AcquireTokenSilent") = 0
        /\ Count(c, "start:SsoSilent") = 0

\* C29: under every interleaving of two silent calls for the same account,
\* tokens a call hydrated for account A from a successful bridge response
\* are not removed by the other call's eviction: while they are not stale
\* they stay in the cache.
HydratedBy(c) ==
    /\ Did(c, "hydrated")
    /\ accessTokens["A"] # NoAccessToken
    /\ accessTokens["A"].secret = IssuedAccessToken(c)
    /\ idTokens["A"] = IssuedIdToken(c)
    /\ FreshNow(accessTokens["A"])

C22_AccountResolution ==
    [][\A c \in Calls :
          SilentStartStep(c) =>
             /\ locals'[c].currentAccount =
                   IF arg'[c].account # NoAccount THEN arg'[c].account
                   ELSE IF bridgeHome \in accounts THEN bridgeHome
                   ELSE NoAccount
             /\ UNCHANGED storage]_vars

\* The bridge reports stored account A and the request names B: B is used.
C22_Witness ==
    \E c \in Calls :
       /\ api[c] \in SilentApis /\ arg[c].account = "B"
       /\ bridgeHome = "A" /\ "A" \in storage0[1]
       /\ locals[c].currentAccount = "B"

\* C23: a correlation identifier is generated at most once per call and only
\* when the request has none; an identifier the request carries is the one
\* of the cache lookup, of the bridge request and of the result; the
\* caller's request is never modified.
C23_CorrelationId ==
    /\ [](\A c \in Calls :
            pc[c] # "idle" =>
               /\ Count(c, "createNewGuid") =
                     IF Truthy(req[c].correlationId) THEN 0 ELSE 1
               /\ Truthy(req[c].correlationId) =>
                     /\ validReq[c].correlationId = req[c].correlationId
                     /\ locals[c].authRequest # NoRequest =>
                           locals[c].authRequest.correlationId =
                              req[c].correlationId
                     /\ Carry(c, {"getTokenSilent", "getTokenInteractive"},
                              req[c].correlationId)
                     /\ res[c].ok =>
                           res[c].correlationId = req[c].correlationId)
    /\ [][\A c \in Calls :
             pc[c] # "idle" => req'[c] = req[c] /\ arg'[c] = arg[c]]_vars

\* A request with its own identifier was answered from the cache.
C23_Witness ==
    \E c \in Calls :
       /\ pc[c] = "done" /\ res[c].fromCache
       /\ req[c].correlationId = "r1" /\ res[c].correlationId = "r1"
       /\ locals[c].authRequest.correlationId = "r1"
       /\ Count(c, "createNewGuid") = 0

\* C24: the request of the cache lookup has the request's authority when it
\* has one and else the environment of the resolved account, the request's
\* scopes when it has at least one and else the OIDC default scopes, and
\* every other field as the request has it.
C24_Normalized ==
    \A c \in Calls :
       locals[c].authRequest # NoRequest =>
          LET given == validReq[c]
              authRequest == locals[c].authRequest
          IN  /\ authRequest.authority =
                    IF given.authority # NoAuthority THEN given.authority
                    ELSE Environment(locals[c].currentAccount)
              /\ authRequest.scopes =
                    IF given.scopes # {} THEN given.scopes
                    ELSE OIDC_DEFAULT_SCOPES
              /\ DOMAIN authRequest = DOMAIN given
              /\ \A f \in DOMAIN given \ {"authority", "scopes"} :
                    authRequest[f] = given[f]

\* A request with an authority and no scopes was normalized.
C24_Witness ==
    \E c \in Calls :
       /\ locals[c].authRequest # NoRequest
       /\ arg[c].authority = "authority1" /\ arg[c].scopes = {}
       /\ locals[c].authRequest.authority = "authority1"
       /\ locals[c].authRequest.scopes = OIDC_DEFAULT_SCOPES
       /\ locals[c].authRequest.claims = "claims1"

\* C26: a controller is constructed only over a bridge proxy: without one the
\* constructor throws before it has created anything, no method is ever
\* called, and a constructed controller holds the proxy.
C26_NoControllerWithoutProxy ==
    /\ controller.state = "constructed" =>
          /\ controller.bridgeProxy # "undefined"
          /\ controller.bridgeProxy = operatingContext.bridgeProxy
    /\ operatingContext.bridgeProxy = "undefined" =>
          /\ controller.state \in {"none", "threw"}
          /\ controller.created = {}
          /\ \A c \in Calls : pc[c] = "idle" /\ trace[c] = <<>>
    /\ controller.state = "threw" =>
          operatingContext.bridgeProxy = "undefined"

\* The constructor threw.
C26_Witness ==
    /\ controller.state = "threw" /\ controller.created = {}
    /\ operatingContext.bridgeProxy = "undefined"

\* C30: acquireTokenSilent and ssoSilent run one silent flow, the cache check
\* first and then getTokenSilent only, and their first step is the same
\* function of request and state; acquireTokenPopup and loginPopup run one
\* interactive flow with getTokenInteractive only; loginPopup without a
\* request uses DEFAULT_REQUEST.
SilentFlow(c) ==
    /\ Count(c, "getTokenInteractive") = 0
    /\ Count(c, "start:AcquireTokenPopup") = 0
    /\ Count(c, "getTokenSilent") <= 1
    /\ Count(c, "start:AcquireTokenSilent") = 1
    /\ Before(c, "start:AcquireTokenSilent", "getTokenSilent")
    /\ Did(c, "getTokenSilent") =>
          /\ Did(c, "end:AcquireTokenSilent")
          /\ Before(c, "end:AcquireTokenSilent", "getTokenSilent")
    /\ req[c] = arg[c]

InteractiveFlow(c) ==
    /\ Count(c, "getTokenSilent") = 0
    /\ Count(c, "getTokenInteractive") = 1
    /\ \A op \in LookupOps \cup {"start:AcquireTokenSilent", "start:SsoSilent"} :
          ~Did(c, op)
    /\ req[c] = IF api[c] = "loginPopup" /\ arg[c] = NoRequest
                THEN DEFAULT_REQUEST
                ELSE arg[c]

\* What the first step of a silent call leaves, from the request and the
\* state alone.
SilentOutcome(c, r) ==
    LET guid == createNewGuid(c)
        vr == ensureValidRequest(r, guid)
        out == CacheLookup(vr, guid, bridgeHome, accounts, accessTokens,
                           idTokens, now)
    IN  <<vr, out.result,
          IF out.kind = "stale" THEN out.account ELSE NoAccount,
          IF out.kind = "stale" THEN "evicting" ELSE "cacheInternal",
          Len(GuidTrace(r, guid)) + 2 + Len(LookupTrace(out.kind, NoCid))>>

C30_OwnFlow ==
    /\ [](\A c \in Calls :
            /\ api[c] \in SilentApis => SilentFlow(c)
            /\ api[c] \in InteractiveApis => InteractiveFlow(c))
    /\ [][\A c \in Calls :
             SilentStartStep(c) =>
                /\ <<validReq'[c], res'[c], purge'[c], pc'[c],
                     Len(trace'[c])>> = SilentOutcome(c, arg'[c])
                /\ UNCHANGED storage]_vars

\* ssoSilent missed the cache and was answered by getTokenSilent.
C30_Witness ==
    \E c \in Calls :
       /\ api[c] = "ssoSilent" /\ pc[c] = "done" /\ ~res[c].fromCache
       /\ Count(c, "getTokenSilent") = 1
       /\ Did(c, "end:AcquireTokenSilent")

\* C33: initialize, handleRedirectPromise, initializeWrapperLibrary and
\* setNavigationClient complete without an error from any state,
\* handleRedirectPromise with null; they emit no event, call no bridge
\* method and leave storage and the active account as they are.
C33_NoOps ==
    /\ [][lastOp' # lastOp =>
             /\ lastOp'.op \in NoOps
             /\ lastOp'.outcome \in {"resolved", "null", "returned"}
             /\ lastOp'.op = "handleRedirectPromise" => lastOp'.outcome = "null"
             /\ UNCHANGED <<accounts, accessTokens, idTokens, activeAccount,
                            trace, pc, res, err, purge, reqTimestamp>>]_vars
    /\ [](lastOp.op \in NoOps => lastOp.outcome # UnsupportedError)

\* handleRedirectPromise resolved with null while a silent call was waiting
\* for the bridge and storage held a token.
C33_Witness ==
    /\ lastOp = [op |-> "handleRedirectPromise", outcome |-> "null"]
    /\ \E c \in Calls : pc[c] = "bridge" /\ Did(c, "getTokenSilent")
    /\ \E a \in Accounts : accessTokens[a].present

\* C31: after any initialize calls the operating context is available
\* exactly when getBridgeProxy() is defined; when the configuration does not
\* support nested app auth, initialize returns false, creates no bridge
\* proxy, asks the host nothing and changes neither bridgeProxy nor
\* activeAccount.
C31_AvailableIffProxy ==
    /\ [](operatingContext.available
             <=> operatingContext.bridgeProxy # "undefined")
    /\ [](~operatingContext.supportsNestedAppAuth =>
             /\ operatingContext.bridgeProxy = "undefined"
             /\ \A i \in InitCalls :
                   initCalls[i].pc # "idle" =>
                      /\ initCalls[i].pc = "done"
                      /\ initCalls[i].returned = "false"
                      /\ initCalls[i].calls = <<>>
                      /\ initCalls[i].bridgeProxy = "undefined")
    /\ [][(~operatingContext.supportsNestedAppAuth /\ initCalls' # initCalls)
             => operatingContext' = operatingContext]_vars

\* Nested app auth is not supported: initialize returned false and the
\* active account the application had set is still there.
C31_Witness ==
    /\ ~operatingContext.supportsNestedAppAuth
    /\ operatingContext.activeAccount = "A"
    /\ \A i \in InitCalls :
          initCalls[i].pc = "done" /\ initCalls[i].returned = "false"

\* The initialize call ended in this step, and the last host call it made
\* is one of these.
EndsAfter(i, hostCalls) ==
    /\ initCalls[i].pc # "done" /\ initCalls'[i].pc = "done"
    /\ Len(initCalls'[i].calls) > 0
    /\ initCalls'[i].calls[Len(initCalls'[i].calls)] \in hostCalls

\* The host calls of an initialize call, as <<method, outcome>>.
HostCall(i, k) == initCalls[i].calls[k]

\* C32: initialize never rejects.  When BridgeProxy.create() fails it
\* resolves with the availability the context has and leaves bridgeProxy as
\* it is.  getActiveAccount is called only after the host capabilities
\* reported queryAccount.  When getActiveAccount or the capability query
\* fails, activeAccount stays as it is, the bridge proxy is stored and the
\* context is available.
C32_InitializeNeverRejects ==
    /\ [](\A i \in InitCalls :
            /\ initCalls[i].returned \in {"pending", "true", "false"}
            /\ initCalls[i].pc = "done" => initCalls[i].returned # "pending"
            /\ \A k \in 1..Len(initCalls[i].calls) :
                  HostCall(i, k)[1] = "getActiveAccount" =>
                     /\ k > 1
                     /\ HostCall(i, k - 1) =
                           <<"getHostCapabilities", "queryAccount">>)
    /\ [][\A i \in InitCalls :
             /\ EndsAfter(i, {<<"create", "rejected">>}) =>
                   /\ operatingContext' = operatingContext
                   /\ initCalls'[i].returned =
                         Bool(operatingContext.available)
             /\ EndsAfter(i, {<<"getActiveAccount", "rejected">>,
                              <<"getHostCapabilities", "throws">>}) =>
                   /\ operatingContext'.activeAccount =
                         operatingContext.activeAccount
                   /\ operatingContext'.bridgeProxy = ProxyOf(i)
                   /\ operatingContext'.available
                   /\ initCalls'[i].returned = "true"]_vars

\* getActiveAccount rejected for a context that already held an active
\* account: the account is kept and the call's proxy is stored.
C32_Witness ==
    \E i \in InitCalls :
       /\ initCalls[i].pc = "done"
       /\ Len(initCalls[i].calls) = 3
       /\ HostCall(i, 3) = <<"getActiveAccount", "rejected">>
       /\ initCalls[i].returned = "true"
       /\ operatingContext.bridgeProxy = ProxyOf(i)
       /\ operatingContext.available
       /\ operatingContext.activeAccount = "A"

====
